---- MODULE Spec2Model ----
(***************************************************************************)
(* Model of one run of the video generation pipeline orchestrator          *)
(* (backend/app/agents/pipeline.py, class VideoPipeline) together with the *)
(* provider-agent operations it awaits.                                    *)
(*                                                                         *)
(* A run is one main coroutine (run) plus the two tasks it forks           *)
(* (_generate_audio, _generate_music).  asyncio switches coroutines only   *)
(* at an await, so every task action below is the code between two awaits. *)
(* Provider outcomes, the progress observer's behaviour and the outcome of *)
(* each close() are the environment's choice.                              *)
(*                                                                         *)
(* Times are exact rationals: every start_time / end_time is stored as its *)
(* numerator over the common denominator TimeDen(scenes).                  *)
(***************************************************************************)
EXTENDS Integers, Sequences, FiniteSets, TLC

(* ---------------- bounds of the model ---------------- *)
MaxScenes == 2
(* largest poll_interval and max_wait of a wait_for_completion call *)
MaxPollInterval == 3
MaxMaxWait == 6

(* ---------------- program constants ---------------- *)
DefaultDuration == 30
ProgressLoopSpan == 90
PollInterval == 5
MaxWait == 300

None == "None"

(* PipelineStage values *)
SCRIPT_GENERATION == "script_generation"
AUDIO_GENERATION == "audio_generation"
MUSIC_GENERATION == "music_generation"
VIDEO_GENERATION == "video_generation"
VIDEO_COMPOSITING == "video_compositing"
FINAL_EXPORT == "final_export"
COMPLETED == "completed"
FAILED == "failed"
INITIALIZED == "initialized"

WorkStages ==
  {SCRIPT_GENERATION, AUDIO_GENERATION, MUSIC_GENERATION, VIDEO_GENERATION,
   VIDEO_COMPOSITING, FINAL_EXPORT}

AllStages == WorkStages \cup {COMPLETED, FAILED}

(* ---------------- inputs of a run ---------------- *)
(* A scene of a script: narration text ("" when absent or empty) and the   *)
(* optional explicit duration ({} when the key is absent).  The narration  *)
(* is read by the audio stage only (line 299) and the duration by the      *)
(* parser only (line 273), so two kinds of scene give every pattern of     *)
(* narrated / silent scenes and every pattern of explicit / default        *)
(* durations: a narrated scene of default duration and a silent scene of   *)
(* explicit duration.                                                      *)
NarrationValues == {"", "text"}
SceneDurationValues == {{}, {5}}
Scenes ==
  {sc \in [narration : NarrationValues, duration : SceneDurationValues] :
     (sc.narration # "") = (sc.duration = {})}

SceneSeqs == UNION {[1..n -> Scenes] : n \in 0..MaxScenes}

(* A script dict: the set of its keys and its scene list.  EmptyScript is  *)
(* the dict {} (no fields); HeadlineScript has fields but no scenes key.   *)
EmptyScript == [keys |-> {}, scenes |-> <<>>]
HeadlineScript == [keys |-> {"headline"}, scenes |-> <<>>]
ScriptsWithScenes == {[keys |-> {"headline", "scenes"}, scenes |-> sc] : sc \in SceneSeqs}
NoScript == [keys |-> {"<None>"}, scenes |-> <<>>]

(* What the script generator call may return: a one-scene script or {}.   *)
(* (It may also raise: ScriptAgent defines generate, not generate_script,  *)
(* so with the agent of script_agent.py the call always raises.)           *)
GeneratedScripts ==
  {EmptyScript,
   [keys |-> {"headline", "scenes"},
    scenes |-> <<[narration |-> "text", duration |-> {}]>>]}

SuppliedScripts == {NoScript, EmptyScript, HeadlineScript} \cup ScriptsWithScenes

ConfigDurations == {DefaultDuration}
(* self.music_agent: __init__ installs the stock agent; _generate_music     *)
(* also serves a generative agent (lines 353-381)                          *)
MusicAgentKinds == {"stock", "generative"}
(* on_progress: not set, or a callback that may raise on any of its calls  *)
Observers == {"none", "flaky"}
(* product.get("category", ...): the key absent, the five categories of     *)
(* get_track_for_category, or a category it does not know                  *)
AbsentCategory == "<absent>"
KnownCategories == {"smartphone", "tv", "appliance", "wearable", "tablet"}
ProductCategories == KnownCategories \cup {AbsentCategory, "monitor"}

VARIABLES
  existing_script,  \* run(existing_script=...)
  product_category, \* product["category"]
  config_duration,  \* config["duration"]
  music_agent,      \* kind of self.music_agent
  on_progress,      \* kind of self.on_progress
  pc,               \* position of the run coroutine
  apc,              \* position of the audio task
  mpc,              \* position of the music task
  exc,              \* exception being handled by run ("None" if none)
  escaped,          \* TRUE once an exception propagates out of run
  script,           \* the script run works with
  stages,           \* self.stages
  current_stage,    \* self.current_stage
  segments,         \* self.segments
  observed,         \* per stage, the progress values passed to on_progress
  ai,               \* loop index of _generate_audio (1-based)
  audio_results,    \* results list of _generate_audio
  music_result,     \* return value of _generate_music
  vi,               \* loop index of _generate_videos (1-based)
  pending,          \* result of generate_video for the current segment
  video_results,    \* results list of _generate_videos
  composite_url,    \* return value of _composite_video
  final_result,     \* return value of _export_video
  result,           \* the PipelineResult returned by run
  calls,            \* provider calls issued so far, in order
  closed,           \* close() calls received per provider client
  w_pc,             \* position of one wait_for_completion call
  w_poll_interval,  \* its poll_interval argument
  w_max_wait,       \* its max_wait argument
  w_elapsed,        \* its local elapsed
  w_polls,          \* the results of its get_task_status calls, in order
  w_result,         \* the result it returns
  jobs,             \* per job id, the status document stored in Redis
  task,             \* per job id, the state of its generate_video_task
  sweep,            \* position of the running check_stalled_jobs, if any
  cancel,           \* position of the cancel request being served, and the last response
  http_op,          \* the client operation under observation
  http_exchange,    \* what its HTTP exchange does
  http_pc,          \* position of the operation
  http_result,      \* the result it returns
  record,           \* the status document of the job of the task under observation
  posted,           \* the video_url arguments of the post_process_video dispatches
  post,             \* per task of that job, its position and the document it read
  status_response   \* the status endpoint's last response for that job

vars == <<existing_script, product_category, config_duration, music_agent, on_progress, pc, apc,
          mpc, exc, escaped, script, stages, current_stage, segments, observed,
          ai, audio_results, music_result, vi, pending, video_results,
          composite_url, final_result, result, calls, closed,
          w_pc, w_poll_interval, w_max_wait, w_elapsed, w_polls, w_result,
          jobs, task, sweep, cancel,
          http_op, http_exchange, http_pc, http_result,
          record, posted, post, status_response>>

wait_vars == <<w_pc, w_poll_interval, w_max_wait, w_elapsed, w_polls, w_result>>

job_vars == <<jobs, task, sweep, cancel>>

client_vars == <<http_op, http_exchange, http_pc, http_result>>

post_vars == <<record, posted, post, status_response>>

Clients == {"script", "video", "audio", "music"}

(* ---------------- pure helpers ---------------- *)
Max(a, b) == IF a >= b THEN a ELSE b

(* Python truthiness of Optional[Dict]: None and {} are falsy. *)
Truthy(s) == s # NoScript /\ s.keys # {}

(* script.get("scenes", []) *)
ScenesOf(s) == IF "scenes" \in s.keys THEN s.scenes ELSE <<>>

(* denominator shared by every time of a run: max(num_scenes, 1) *)
TimeDen(scenes) == Max(Len(scenes), 1)

(* scene.get("duration", base_duration), as a numerator over TimeDen:      *)
(* base_duration = total_duration / max(num_scenes, 1)                     *)
SceneDuration(scene, total_duration, den) ==
  IF scene.duration = {} THEN total_duration
  ELSE (CHOOSE d \in scene.duration : TRUE) * den

RECURSIVE StartTime(_, _, _)
StartTime(scenes, total_duration, i) ==
  IF i = 1 THEN 0
  ELSE StartTime(scenes, total_duration, i - 1)
       + SceneDuration(scenes[i - 1], total_duration, TimeDen(scenes))

(* _parse_script_segments: the segment list appended to self.segments *)
ParseScriptSegments(s, total_duration) ==
  LET scenes == ScenesOf(s) IN
  [i \in 1..Len(scenes) |->
     [index |-> i - 1,
      start_time |-> StartTime(scenes, total_duration, i),
      end_time |-> StartTime(scenes, total_duration, i)
                   + SceneDuration(scenes[i], total_duration, TimeDen(scenes)),
      narration |-> scenes[i].narration,
      video_url |-> None,
      audio_data |-> None]]

(* int((i / len(segments)) * 90) for the 0-based index i *)
LoopProgress(i, n) == (i * ProgressLoopSpan) \div n

(* A history that appends a record on every call, without the lookup. *)
UpdateStagesAlwaysAppend(st, stage, progress) ==
  Append(st, [stage |-> stage, progress |-> progress,
              started_at |-> TRUE, completed_at |-> (progress = 100)])

(* _update_progress, lines 110-129: update the stage's record or append one *)
UpdateStages(st, stage, progress) ==
  IF \E k \in 1..Len(st) : st[k].stage = stage
  THEN [k \in 1..Len(st) |->
          IF st[k].stage = stage
          THEN [st[k] EXCEPT !.progress = progress,
                             !.completed_at = (st[k].completed_at \/ progress = 100)]
          ELSE st[k]]
  ELSE Append(st, [stage |-> stage, progress |-> progress,
                   started_at |-> TRUE, completed_at |-> (progress = 100)])

RECURSIVE ApplyUpdates(_, _, _)
ApplyUpdates(st, ups, n) ==
  IF n = 0 THEN st
  ELSE UpdateStages(ApplyUpdates(st, ups, n - 1), ups[n][1], ups[n][2])

(* lines 131-132: the values handed to the observer, kept per stage *)
RECURSIVE Observe(_, _, _)
Observe(obs, ups, n) ==
  IF n = 0 THEN obs
  ELSE LET o == Observe(obs, ups, n - 1)
       IN [o EXCEPT ![ups[n][1]] = Append(@, ups[n][2])]

(* Which call of a block of _update_progress calls raises in on_progress:  *)
(* 0 when none does.                                                       *)
RaisePoints(ups) == IF on_progress = "flaky" THEN 0..Len(ups) ELSE {0}

Applied(ups, k) == IF k = 0 THEN Len(ups) ELSE k

(* The state change of a block of consecutive _update_progress calls of    *)
(* which call k raises (lines 118-132).                                    *)
Progress(ups, k) ==
  /\ stages' = ApplyUpdates(stages, ups, Applied(ups, k))
  /\ current_stage' = IF ups = <<>> THEN current_stage ELSE ups[Applied(ups, k)][1]
  /\ observed' = IF on_progress = "none" THEN observed
                 ELSE Observe(observed, ups, Applied(ups, k))

ObserverError == "observer error"

(* _create_error_result *)
CreateErrorResult(error) ==
  [success |-> FALSE, video_url |-> None, thumbnail_url |-> None,
   duration |-> -1, error |-> error, segments |-> -1]

NoResult ==
  [success |-> FALSE, video_url |-> None, thumbnail_url |-> None,
   duration |-> -1, error |-> "<not returned>", segments |-> -1]

(* _export_video's results: line 496 and lines 524-528 *)
NullExport == [video_url |-> None, thumbnail_url |-> None, duration |-> 0]

Export(total_duration) ==
  [video_url |-> "final_youtube.mp4", thumbnail_url |-> "thumbnail.jpg",
   duration |-> total_duration]

CompositeUrl == "composite.mp4"

(* StockMusicAgent.STOCK_TRACKS, music_agent.py lines 390-421, in dict      *)
(* order: id, url and mood of each track                                   *)
STOCK_TRACKS ==
  <<[id |-> "tech_upbeat", url |-> "/assets/music/tech_upbeat.mp3", mood |-> "tech"],
    [id |-> "cinematic_premium", url |-> "/assets/music/cinematic_premium.mp3",
     mood |-> "dramatic"],
    [id |-> "ambient_modern", url |-> "/assets/music/ambient_modern.mp3", mood |-> "calm"],
    [id |-> "energetic_fitness", url |-> "/assets/music/energetic_fitness.mp3",
     mood |-> "energetic"],
    [id |-> "inspiring_corporate", url |-> "/assets/music/inspiring_corporate.mp3",
     mood |-> "inspiring"]>>

(* category_moods, music_agent.py lines 434-440 *)
CategoryMoods ==
  [c \in KnownCategories |->
     CASE c = "smartphone" -> "tech"
       [] c = "tv" -> "dramatic"
       [] c = "appliance" -> "calm"
       [] c = "wearable" -> "energetic"
       [] c = "tablet" -> "inspiring"]

TrackOf(t) == [id |-> t.id, url |-> t.url]

(* get_track_for_mood, music_agent.py lines 423-430: the first track of the *)
(* mood, tech_upbeat when there is none                                    *)
GetTrackForMood(mood) ==
  LET matching == SelectSeq(STOCK_TRACKS, LAMBDA t : t.mood = mood)
  IN IF matching # <<>> THEN TrackOf(matching[1]) ELSE TrackOf(STOCK_TRACKS[1])

(* no music result yet *)
NoTrack == [id |-> None, url |-> None]

(* ---------------- initial state: VideoPipeline.__init__ ---------------- *)
(* the pipeline's own state after __init__, whatever the inputs of run *)
InitState ==
  /\ pc = "script_start"
  /\ apc = "idle"
  /\ mpc = "idle"
  /\ exc = None
  /\ escaped = FALSE
  /\ script = NoScript
  /\ stages = <<>>
  /\ current_stage = INITIALIZED
  /\ segments = <<>>
  /\ observed = [s \in AllStages |-> <<>>]
  /\ ai = 0
  /\ audio_results = <<>>
  /\ music_result = NoTrack
  /\ vi = 0
  /\ pending = None
  /\ video_results = <<>>
  /\ composite_url = None
  /\ final_result = NullExport
  /\ result = NoResult
  /\ calls = <<>>
  /\ closed = [c \in Clients |-> 0]

(* no wait_for_completion call under observation *)
NoPoll == [status |-> "<none>", video_url |-> None, error |-> None]

WaitIdle ==
  /\ w_pc = "idle"
  /\ w_poll_interval = PollInterval
  /\ w_max_wait = MaxWait
  /\ w_elapsed = 0
  /\ w_polls = <<>>
  /\ w_result = NoPoll

(* ---------------- the job store and the task queue ---------------- *)
(* the job ids handed out by the API (uuid4 strings): two jobs *)
JobIds == {"job-a", "job-b"}

(* minutes; the clock advances in steps of the sweep period (celery_app.py  *)
(* line 64: 300.0 seconds) and an age beyond the threshold (video_tasks.py  *)
(* line 348: 30 minutes) is kept as the first step beyond it                *)
SweepPeriod == 5
StallThreshold == 30
MaxAge == StallThreshold + SweepPeriod

(* self.retry(..., max_retries=3), video_tasks.py line 174 *)
MaxRetries == 3

(* no document under the job's key *)
NoJob == [status |-> "<none>", error |-> <<>>, updated_at |-> 0]

NoError == <<>>

(* a task not yet dispatched *)
NoTask == [state |-> "none", retries |-> 0]

(* no check_stalled_jobs running *)
SweepIdle == [pc |-> "idle", todo |-> {}, key |-> None]

(* no cancel request served yet *)
CancelIdle == [pc |-> "idle", job |-> None, response |-> None]

(* the tasks of one job: generate_video_task, post_process_video and the    *)
(* tasks it dispatches (video_tasks.py lines 196-203)                       *)
ExportFormats == <<"instagram", "tiktok">>

ExportTask(format_name) == "export_video_format:" \o format_name

PostProcessingTasks ==
  {"generate_thumbnail", "update_project_video"}
    \cup {ExportTask(ExportFormats[i]) : i \in 1..Len(ExportFormats)}

TaskNames == {"generate_video_task", "post_process_video"} \cup PostProcessingTasks

(* a key a dict does not hold *)
Absent == "<absent>"

AbsentResult == [video_url |-> Absent, thumbnail_url |-> Absent]

(* no document stored *)
NoRecord ==
  [status |-> "<none>", current_step |-> Absent, result |-> AbsentResult,
   error |-> Absent, exports |-> {}]

(* a task that was not dispatched; video_url is its argument, job_data the  *)
(* document it read                                                         *)
NotDispatched == [pc |-> "none", video_url |-> None, job_data |-> NoRecord]

(* no request served *)
NoResponse == [status |-> "<none>", current_step |-> Absent, steps |-> <<>>]

PostIdle ==
  /\ record = NoRecord
  /\ posted = <<>>
  /\ post = [t \in TaskNames |-> NotDispatched]
  /\ status_response = NoResponse

JobsIdle ==
  /\ jobs = [j \in JobIds |-> NoJob]
  /\ task = [j \in JobIds |-> NoTask]
  /\ sweep = SweepIdle
  /\ cancel = CancelIdle

(* no client operation under observation *)
ClientIdle ==
  /\ http_op = None
  /\ http_exchange = None
  /\ http_pc = "idle"
  /\ http_result = None

Init ==
  /\ existing_script \in SuppliedScripts
  /\ product_category \in {AbsentCategory}
  /\ config_duration \in ConfigDurations
  /\ music_agent \in MusicAgentKinds
  /\ on_progress \in Observers
  /\ InitState
  /\ WaitIdle
  /\ JobsIdle
  /\ ClientIdle
  /\ PostIdle

inputs == <<existing_script, product_category, config_duration, music_agent,
            on_progress>>

(* ---------------- Stage 1: _generate_script ---------------- *)
(* lines 226-230: report 0%, then branch on `if existing_script` *)
GenerateScriptStart ==
  /\ pc = "script_start"
  /\ \E k \in RaisePoints(<<<<SCRIPT_GENERATION, 0>>>>) :
       /\ Progress(<<<<SCRIPT_GENERATION, 0>>>>, k)
       /\ IF k > 0
          THEN pc' = "fail" /\ exc' = ObserverError
          ELSE /\ pc' = IF Truthy(existing_script) THEN "script_use" ELSE "script_call"
               /\ exc' = exc
  /\ UNCHANGED <<inputs, wait_vars, job_vars, client_vars, post_vars, apc, mpc, escaped, script, segments, ai, audio_results,
                 music_result, vi, pending, video_results,
                 composite_url, final_result, result, calls, closed>>

(* lines 231-234: the supplied script is used, reported at 100% *)
GenerateScriptUseExisting ==
  /\ pc = "script_use"
  /\ \E k \in RaisePoints(<<<<SCRIPT_GENERATION, 100>>>>) :
       /\ Progress(<<<<SCRIPT_GENERATION, 100>>>>, k)
       /\ IF k > 0
          THEN pc' = "fail" /\ exc' = ObserverError /\ script' = script
          ELSE pc' = "parse" /\ exc' = exc /\ script' = existing_script
  /\ UNCHANGED <<inputs, wait_vars, job_vars, client_vars, post_vars, apc, mpc, escaped, segments, ai, audio_results,
                 music_result, vi, pending, video_results,
                 composite_url, final_result, result, calls, closed>>

(* lines 236-243: await self.script_agent.generate_script(...) *)
GenerateScriptCall ==
  /\ pc = "script_call"
  /\ calls' = Append(calls, [client |-> "script", op |-> "generate_script",
                             seg |-> -1, arg |-> config_duration])
  /\ \/ \E s \in GeneratedScripts :
          script' = s /\ pc' = "script_generated" /\ exc' = exc
     \/ script' = script /\ pc' = "script_except" /\ exc' = "script error"
  /\ UNCHANGED <<inputs, wait_vars, job_vars, client_vars, post_vars, apc, mpc, escaped, stages, current_stage, segments,
                 observed, ai, audio_results, music_result, vi, pending,
                 video_results, composite_url, final_result, result, closed>>

(* lines 245-249 and 160-161: report 100%, return the script; run returns   *)
(* the error result when the script is falsy                               *)
GenerateScriptDone ==
  /\ pc = "script_generated"
  /\ \E k \in RaisePoints(<<<<SCRIPT_GENERATION, 100>>>>) :
       /\ Progress(<<<<SCRIPT_GENERATION, 100>>>>, k)
       /\ IF k > 0
          THEN pc' = "script_except" /\ exc' = ObserverError /\ result' = result
          ELSE IF Truthy(script)
               THEN pc' = "parse" /\ exc' = exc /\ result' = result
               ELSE /\ pc' = "cleanup_video"
                    /\ exc' = exc
                    /\ result' = CreateErrorResult("Script generation failed")
  /\ UNCHANGED <<inputs, wait_vars, job_vars, client_vars, post_vars, apc, mpc, escaped, script, segments, ai, audio_results,
                 music_result, vi, pending, video_results,
                 composite_url, final_result, calls, closed>>

(* lines 251-256 and 160-161: the stage swallows the exception, reports 0%  *)
(* and returns None; run returns the error result                          *)
GenerateScriptExcept ==
  /\ pc = "script_except"
  /\ \E k \in RaisePoints(<<<<SCRIPT_GENERATION, 0>>>>) :
       /\ Progress(<<<<SCRIPT_GENERATION, 0>>>>, k)
       /\ IF k > 0
          THEN pc' = "fail" /\ exc' = ObserverError /\ result' = result
          ELSE /\ pc' = "cleanup_video"
               /\ exc' = None
               /\ result' = CreateErrorResult("Script generation failed")
  /\ UNCHANGED <<inputs, wait_vars, job_vars, client_vars, post_vars, apc, mpc, escaped, script, segments, ai, audio_results,
                 music_result, vi, pending, video_results,
                 composite_url, final_result, calls, closed>>

(* lines 164-176: parse the segments, create both tasks, await gather *)
ParseAndFork ==
  /\ pc = "parse"
  /\ segments' = segments \o ParseScriptSegments(script, config_duration)
  /\ apc' = "start"
  /\ mpc' = "start"
  /\ pc' = "gather"
  /\ UNCHANGED <<inputs, wait_vars, job_vars, client_vars, post_vars, exc, escaped, script, stages, current_stage, observed,
                 ai, audio_results, music_result, vi, pending, video_results, composite_url, final_result, result, calls, closed>>

(* ---------------- Stage 2: _generate_audio (task) ---------------- *)
(* first index >= j whose segment has narration; Len + 1 when none *)
RECURSIVE NextNarrated(_, _)
NextNarrated(segs, j) ==
  IF j > Len(segs) THEN j
  ELSE IF segs[j].narration # "" THEN j
  ELSE NextNarrated(segs, j + 1)

(* lines 299-301: results appended for the skipped segments j..n-1 *)
SkippedResults(j, n) ==
  [i \in 1..(n - j) |-> [success |-> TRUE, audio_data |-> None, error |-> None]]

(* lines 298-314 / 327-331: from loop position j run to the next await      *)
(* (a generate_speech call) or to the end of the stage.  pre is the block   *)
(* of _update_progress calls made before the loop is entered.              *)
AudioAdvance(pre, j) ==
  LET n == NextNarrated(segments, j)
      N == Len(segments)
      last == IF n > N THEN <<AUDIO_GENERATION, 100>>
              ELSE <<AUDIO_GENERATION, LoopProgress(n - 1, N)>>
      ups == Append(pre, last)
  IN \E k \in RaisePoints(ups) :
       /\ Progress(ups, k)
       /\ IF k > 0
          THEN /\ apc' = "raised"
               /\ ai' = ai
               /\ calls' = calls
               /\ audio_results' = IF k > Len(pre)
                                   THEN audio_results \o SkippedResults(j, n)
                                   ELSE audio_results
          ELSE /\ audio_results' = audio_results \o SkippedResults(j, n)
               /\ ai' = n
               /\ IF n > N
                  THEN apc' = "done" /\ calls' = calls
                  ELSE /\ apc' = "speech"
                       /\ calls' = Append(calls, [client |-> "audio",
                                                  op |-> "generate_speech",
                                                  seg |-> n - 1, arg |-> 0])

(* lines 291-314: the task's first run, up to its first await.  Tasks are   *)
(* started in creation order: audio before music.                          *)
GenerateAudioStart ==
  /\ apc = "start"
  /\ AudioAdvance(<<<<AUDIO_GENERATION, 0>>>>, 1)
  /\ UNCHANGED <<inputs, wait_vars, job_vars, client_vars, post_vars, pc, mpc, exc, escaped, script, segments, music_result,
                 vi, pending, video_results, composite_url, final_result, result,
                 closed>>

(* A speech stage whose exception handler records nothing. *)
GenerateSpeechReturnDropRaised ==
  /\ apc = "speech"
  /\ mpc # "start"
  /\ \E outcome \in {"ok", "failed", "raise"} :
       /\ segments' = IF outcome = "ok"
                      THEN [segments EXCEPT ![ai].audio_data = "audio bytes"]
                      ELSE segments
       /\ audio_results' =
            CASE outcome = "ok" ->
                   Append(audio_results,
                          [success |-> TRUE, audio_data |-> "audio bytes", error |-> None])
              [] outcome = "failed" ->
                   Append(audio_results,
                          [success |-> FALSE, audio_data |-> None, error |-> None])
              [] outcome = "raise" -> audio_results
  /\ apc' = "sleep"
  /\ UNCHANGED <<inputs, wait_vars, job_vars, client_vars, post_vars, pc, mpc, exc, escaped, script, stages, current_stage,
                 observed, ai, music_result, vi, pending,
                 video_results, composite_url, final_result, result, calls, closed>>

(* lines 311-325: generate_speech returns or raises; the result is recorded *)
(* and the task sleeps (rate limiting).  The music task, already on the    *)
(* loop's ready queue, has made its first run before any I/O completes.    *)
GenerateSpeechReturn ==
  /\ apc = "speech"
  /\ mpc # "start"
  /\ \E outcome \in {"ok", "failed", "raise"} :
       /\ segments' = IF outcome = "ok"
                      THEN [segments EXCEPT ![ai].audio_data = "audio bytes"]
                      ELSE segments
       /\ audio_results' =
            Append(audio_results,
                   CASE outcome = "ok" ->
                          [success |-> TRUE, audio_data |-> "audio bytes", error |-> None]
                     [] outcome = "failed" ->
                          [success |-> FALSE, audio_data |-> None, error |-> None]
                     [] outcome = "raise" ->
                          [success |-> FALSE, audio_data |-> None, error |-> "speech error"])
  /\ apc' = "sleep"
  /\ UNCHANGED <<inputs, wait_vars, job_vars, client_vars, post_vars, pc, mpc, exc, escaped, script, stages, current_stage,
                 observed, ai, music_result, vi, pending, video_results, composite_url, final_result, result, calls, closed>>

(* line 325 onwards: the sleep ends, the loop goes on *)
GenerateAudioResume ==
  /\ apc = "sleep"
  /\ AudioAdvance(<<>>, ai + 1)
  /\ UNCHANGED <<inputs, wait_vars, job_vars, client_vars, post_vars, pc, mpc, exc, escaped, script, segments, music_result,
                 vi, pending, video_results, composite_url, final_result, result,
                 closed>>

(* ---------------- Stage 3: _generate_music (task) ---------------- *)
(* the category _generate_music works with, line 343 *)
CategoryOf(c) == IF c = AbsentCategory THEN "smartphone" ELSE c

(* get_track_for_category, music_agent.py lines 432-443 *)
GetTrackForCategory(category) ==
  GetTrackForMood(IF category \in DOMAIN CategoryMoods
                  THEN CategoryMoods[category] ELSE "tech")

(* lines 363-366: the dict built from a completed generation *)
GeneratedTrack == [id |-> None, url |-> "generated audio url"]

(* MusicStatus, music_agent.py lines 40-44 *)
MusicStatuses == {"pending", "processing", "completed", "failed"}
(* why the generative call raises: an error in the provider, or an agent   *)
(* without generate_for_category (MubertMusicAgent)                        *)
MusicRaises == {"provider error", "missing method"}

(* The generative agent is the SunoMusicAgent whose generate_music call is  *)
(* under observation (generate_for_category returns that call's result,     *)
(* music_agent.py lines 253-257), or else some agent of which nothing is    *)
(* known.                                                                   *)
SunoObserved == http_op = "generate_music"

(* the statuses the awaited generate_for_category may return *)
ReturnedMusicStatuses ==
  IF SunoObserved THEN {http_result.status} ELSE MusicStatuses

(* the exceptions it may raise: SunoMusicAgent catches its own *)
ReturnedMusicRaises == IF SunoObserved THEN {} ELSE MusicRaises

(* lines 339-358: stock lookup (no await), or the generative call is issued *)
GenerateMusicStart ==
  /\ mpc = "start"
  /\ apc # "start"
  /\ LET ups == IF music_agent = "stock"
                THEN <<<<MUSIC_GENERATION, 0>>, <<MUSIC_GENERATION, 100>>>>
                ELSE <<<<MUSIC_GENERATION, 0>>>>
     IN \E k \in RaisePoints(ups) :
          /\ Progress(ups, k)
          /\ IF k > 0
             THEN mpc' = "raised" /\ music_result' = music_result /\ calls' = calls
             ELSE IF music_agent = "stock"
                  THEN /\ mpc' = "done"
                       /\ music_result' = GetTrackForCategory(CategoryOf(product_category))
                       /\ calls' = calls
                  ELSE /\ mpc' = "generating"
                       /\ music_result' = music_result
                       /\ calls' = Append(calls, [client |-> "music",
                                                  op |-> "generate_for_category",
                                                  seg |-> -1, arg |-> config_duration])
  /\ UNCHANGED <<inputs, wait_vars, job_vars, client_vars, post_vars, pc, apc, exc, escaped, script, segments, ai,
                 audio_results, vi, pending, video_results,
                 composite_url, final_result, result, closed>>

(* A music stage whose except clause re-raises. *)
GenerateMusicReturnReraise ==
  /\ mpc = "generating"
  /\ SunoObserved => http_pc = "returned"
  /\ \/ /\ \E status \in ReturnedMusicStatuses :
             \E k \in RaisePoints(<<<<MUSIC_GENERATION, 100>>>>) :
               /\ Progress(<<<<MUSIC_GENERATION, 100>>>>, k)
               /\ music_result' = IF k = 0 /\ status = "completed"
                                  THEN GeneratedTrack
                                  ELSE GetTrackForCategory(CategoryOf(product_category))
        /\ mpc' = "done"
     \/ /\ \E raised \in ReturnedMusicRaises : mpc' = "raised"
        /\ UNCHANGED <<music_result, stages, current_stage, observed>>
  /\ UNCHANGED <<inputs, wait_vars, job_vars, client_vars, post_vars, pc, apc, exc, escaped, script, segments, ai,
                 audio_results, vi, pending, video_results,
                 composite_url, final_result, result, calls, closed>>

(* lines 360-381: the generative call returned or raised; every exception   *)
(* raised inside the try, the observer's included, falls back to stock     *)
GenerateMusicReturn ==
  /\ mpc = "generating"
  /\ SunoObserved => http_pc = "returned"
  /\ \/ \E status \in ReturnedMusicStatuses :
          \E k \in RaisePoints(<<<<MUSIC_GENERATION, 100>>>>) :
            /\ Progress(<<<<MUSIC_GENERATION, 100>>>>, k)
            /\ music_result' = IF k = 0 /\ status = "completed"
                               THEN GeneratedTrack
                               ELSE GetTrackForCategory(CategoryOf(product_category))
     \/ /\ \E raised \in ReturnedMusicRaises :
             music_result' = GetTrackForCategory(CategoryOf(product_category))
        /\ UNCHANGED <<stages, current_stage, observed>>
  /\ mpc' = "done"
  /\ UNCHANGED <<inputs, wait_vars, job_vars, client_vars, post_vars, pc, apc, exc, escaped, script, segments, ai,
                 audio_results, vi, pending, video_results,
                 composite_url, final_result, result, calls, closed>>

(* ---------------- the join: asyncio.gather, lines 174-176 ---------------- *)
(* A join that returns as soon as one branch has returned. *)
GatherReturnFirstDone ==
  /\ pc = "gather"
  /\ apc = "done" \/ mpc = "done"
  /\ apc # "start" /\ mpc # "start"
  /\ pc' = "video_start"
  /\ audio_results' = <<>>
  /\ UNCHANGED <<inputs, wait_vars, job_vars, client_vars, post_vars, apc, mpc, exc, escaped, script, stages, current_stage,
                 segments, observed, ai, music_result, vi,
                 pending, video_results, composite_url, final_result, result,
                 calls, closed>>

(* Both branches returned.  The audio results list is handed to            *)
(* _composite_video, which never reads it, and is dropped here.            *)
GatherReturn ==
  /\ pc = "gather"
  /\ apc = "done"
  /\ mpc = "done"
  /\ pc' = "video_start"
  /\ audio_results' = <<>>
  /\ UNCHANGED <<inputs, wait_vars, job_vars, client_vars, post_vars, apc, mpc, exc, escaped, script, stages, current_stage,
                 segments, observed, ai, music_result, vi,
                 pending, video_results, composite_url, final_result, result, calls,
                 closed>>

(* A join that collects a branch's exception as a value and goes on       *)
(* (gather(..., return_exceptions=True)).                                   *)
GatherRaiseReturnExceptions ==
  /\ pc = "gather"
  /\ apc = "raised" \/ mpc = "raised"
  /\ apc # "start" /\ mpc # "start"
  /\ pc' = "video_start"
  /\ exc' = exc
  /\ UNCHANGED <<inputs, wait_vars, job_vars, client_vars, post_vars, apc, mpc, escaped, script, stages, current_stage,
                 segments, observed, ai, audio_results, music_result, vi,
                 pending, video_results, composite_url, final_result, result, calls,
                 closed>>

(* gather re-raises the first exception of a branch without waiting for    *)
(* the other branch (which is not cancelled)                               *)
GatherRaise ==
  /\ pc = "gather"
  /\ apc = "raised" \/ mpc = "raised"
  /\ apc # "start" /\ mpc # "start"
  /\ pc' = "fail"
  /\ exc' = ObserverError
  /\ UNCHANGED <<inputs, wait_vars, job_vars, client_vars, post_vars, apc, mpc, escaped, script, stages, current_stage,
                 segments, observed, ai, audio_results, music_result, vi,
                 pending, video_results, composite_url, final_result, result, calls,
                 closed>>


(* ---------------- Stage 4: _generate_videos ---------------- *)
(* int(x) of the rational num / den: truncation toward zero *)
IntTrunc(num, den) == IF num >= 0 THEN num \div den ELSE -((-num) \div den)

(* lines 389-394 *)
GenerateVideosStart ==
  /\ pc = "video_start"
  /\ \E k \in RaisePoints(<<<<VIDEO_GENERATION, 0>>>>) :
       /\ Progress(<<<<VIDEO_GENERATION, 0>>>>, k)
       /\ IF k > 0
          THEN pc' = "fail" /\ exc' = ObserverError /\ vi' = vi
          ELSE pc' = "video_loop" /\ exc' = exc /\ vi' = 1
  /\ UNCHANGED <<inputs, wait_vars, job_vars, client_vars, post_vars, apc, mpc, escaped, script, segments, ai, audio_results,
                 music_result, pending, video_results, composite_url,
                 final_result, result, calls, closed>>

(* A video stage that issues the calls of all remaining segments at once. *)
GenerateVideosNextAllAtOnce ==
  /\ pc = "video_loop"
  /\ vi <= Len(segments)
  /\ LET ups == <<<<VIDEO_GENERATION, LoopProgress(vi - 1, Len(segments))>>>>
     IN \E k \in RaisePoints(ups) :
          /\ Progress(ups, k)
          /\ IF k > 0
             THEN pc' = "fail" /\ exc' = ObserverError /\ calls' = calls
             ELSE /\ pc' = "video_call"
                  /\ exc' = exc
                  /\ calls' = calls \o
                       [i \in 1..(Len(segments) - vi + 1) |->
                          [client |-> "video", op |-> "generate_video",
                           seg |-> vi + i - 2,
                           arg |-> IntTrunc(segments[vi + i - 1].end_time
                                            - segments[vi + i - 1].start_time,
                                            TimeDen(segments))]]
  /\ UNCHANGED <<inputs, wait_vars, job_vars, client_vars, post_vars, apc, mpc, escaped, script, segments, ai, audio_results,
                 music_result, vi, pending, video_results,
                 composite_url, final_result, result, closed>>

(* lines 397-411: report the loop progress and issue generate_video *)
GenerateVideosNext ==
  /\ pc = "video_loop"
  /\ vi <= Len(segments)
  /\ LET ups == <<<<VIDEO_GENERATION, LoopProgress(vi - 1, Len(segments))>>>>
     IN \E k \in RaisePoints(ups) :
          /\ Progress(ups, k)
          /\ IF k > 0
             THEN pc' = "fail" /\ exc' = ObserverError /\ calls' = calls
             ELSE /\ pc' = "video_call"
                  /\ exc' = exc
                  /\ calls' = Append(calls,
                       [client |-> "video", op |-> "generate_video", seg |-> vi - 1,
                        arg |-> IntTrunc(segments[vi].end_time - segments[vi].start_time,
                                         TimeDen(segments))])
  /\ UNCHANGED <<inputs, wait_vars, job_vars, client_vars, post_vars, apc, mpc, escaped, script, segments, ai, audio_results,
                 music_result, vi, pending, video_results,
                 composite_url, final_result, result, closed>>

(* A video stage that leaves its loop at the first failed segment. *)
GenerateVideoReturnAlwaysPolls ==
  /\ pc = "video_call"
  /\ \/ /\ pending' = "task"
        /\ pc' = "video_wait"
        /\ UNCHANGED <<vi, video_results>>
     \/ /\ pending' = ""
        /\ pc' = "video_wait"
        /\ UNCHANGED <<vi, video_results>>
  /\ UNCHANGED <<inputs, wait_vars, job_vars, client_vars, post_vars, apc, mpc, exc, escaped, script, stages, current_stage,
                 segments, observed, ai, audio_results, music_result,
                 composite_url, final_result, result, calls, closed>>

GenerateVideoReturnBreakOnFailure ==
  /\ pc = "video_call"
  /\ \/ /\ pending' = "task"
        /\ pc' = "video_wait"
        /\ UNCHANGED <<vi, video_results>>
     \/ \E error \in {"API error", "video error"} :
          /\ video_results' = Append(video_results,
               [success |-> FALSE, video_url |-> None, error |-> error])
          /\ vi' = Len(segments) + 1
          /\ pc' = "video_loop"
          /\ UNCHANGED pending
  /\ UNCHANGED <<inputs, wait_vars, job_vars, client_vars, post_vars, apc, mpc, exc, escaped, script, stages, current_stage,
                 segments, observed, ai, audio_results, music_result,
                 composite_url, final_result, result, calls, closed>>

(* lines 407-430: generate_video returns a pending task, returns FAILED or  *)
(* raises                                                                   *)
GenerateVideoReturn ==
  /\ pc = "video_call"
  /\ \/ /\ pending' = "task"
        /\ pc' = "video_wait"
        /\ UNCHANGED <<vi, video_results>>
     \/ \E error \in {"API error", "video error"} :
          /\ video_results' = Append(video_results,
               [success |-> FALSE, video_url |-> None, error |-> error])
          /\ vi' = vi + 1
          /\ pc' = "video_loop"
          /\ UNCHANGED pending
  /\ UNCHANGED <<inputs, wait_vars, job_vars, client_vars, post_vars, apc, mpc, exc, escaped, script, stages, current_stage,
                 segments, observed, ai, audio_results, music_result,
                 composite_url, final_result, result, calls, closed>>

(* A status poll's terminal answers (get_task_status, video_agent.py lines *)
(* 148-175): COMPLETED with or without an output URL, or FAILED            *)
TerminalStatuses ==
  {[success |-> TRUE, video_url |-> "video url", error |-> None],
   [success |-> TRUE, video_url |-> None, error |-> None],
   [success |-> FALSE, video_url |-> None, error |-> "Unknown error"]}

TimeoutResult ==
  [success |-> FALSE, video_url |-> None,
   error |-> "Timeout waiting for video generation"]

(* The provider's behaviour for one task: the poll (1-based) at which the   *)
(* status is first terminal (0: never) and that terminal status.           *)
LastPoll == (MaxWait + PollInterval - 1) \div PollInterval
TaskBehaviours ==
  [terminal_at : {0, 1, LastPoll, LastPoll + 1}, status : TerminalStatuses]

(* wait_for_completion, video_agent.py lines 194-208: the loop from the     *)
(* given elapsed time, about to issue poll number poll                     *)
RECURSIVE WaitForCompletion(_, _, _, _, _)
WaitForCompletion(behaviour, poll_interval, max_wait, elapsed_, poll) ==
  IF elapsed_ < max_wait
  THEN IF behaviour.terminal_at = poll
       THEN behaviour.status
       ELSE WaitForCompletion(behaviour, poll_interval, max_wait,
                              elapsed_ + poll_interval, poll + 1)
  ELSE TimeoutResult

(* A video stage that stores a rebuilt segment, without the audio attached  *)
(* by the audio stage.                                                      *)
WaitForCompletionReturnRebuildsSegment ==
  /\ pc = "video_wait"
  /\ \E behaviour \in TaskBehaviours :
       LET r == WaitForCompletion(behaviour, PollInterval, MaxWait, 0, 1) IN
       /\ segments' = [segments EXCEPT ![vi].video_url = r.video_url,
                                       ![vi].audio_data = None]
       /\ video_results' = Append(video_results, r)
  /\ vi' = vi + 1
  /\ pending' = None
  /\ pc' = "video_loop"
  /\ UNCHANGED <<inputs, wait_vars, job_vars, client_vars, post_vars, apc, mpc, exc, escaped, script, stages, current_stage,
                 observed, ai, audio_results, music_result, composite_url,
                 final_result, result, calls, closed>>

(* pipeline.py lines 415-426: await wait_for_completion(task_id, 5, 300)    *)
(* and record its result for the segment.  Both forked tasks have returned *)
(* when the video stage runs, so nothing interleaves with the polling.     *)
WaitForCompletionReturn ==
  /\ pc = "video_wait"
  /\ \E behaviour \in TaskBehaviours :
       LET r == WaitForCompletion(behaviour, PollInterval, MaxWait, 0, 1) IN
       /\ segments' = [segments EXCEPT ![vi].video_url = r.video_url]
       /\ video_results' = Append(video_results, r)
  /\ vi' = vi + 1
  /\ pending' = None
  /\ pc' = "video_loop"
  /\ UNCHANGED <<inputs, wait_vars, job_vars, client_vars, post_vars, apc, mpc, exc, escaped, script, stages, current_stage,
                 observed, ai, audio_results, music_result, composite_url,
                 final_result, result, calls, closed>>

(* lines 432-436 *)
GenerateVideosDone ==
  /\ pc = "video_loop"
  /\ vi > Len(segments)
  /\ \E k \in RaisePoints(<<<<VIDEO_GENERATION, 100>>>>) :
       /\ Progress(<<<<VIDEO_GENERATION, 100>>>>, k)
       /\ IF k > 0
          THEN pc' = "fail" /\ exc' = ObserverError
          ELSE pc' = "composite_start" /\ exc' = exc
  /\ UNCHANGED <<inputs, wait_vars, job_vars, client_vars, post_vars, apc, mpc, escaped, script, segments, ai, audio_results,
                 music_result, vi, pending, video_results,
                 composite_url, final_result, result, calls, closed>>

(* ---------------- Stage 5: _composite_video ---------------- *)
(* lines 455-458 *)
VideoUrls(results) ==
  SelectSeq(results, LAMBDA r : r.success /\ r.video_url # None)

(* lines 450-462: report 0%; return None when no video is composable.  The  *)
(* video results are not read after line 458 and are dropped here.         *)
CompositeVideoStart ==
  /\ pc = "composite_start"
  /\ \E k \in RaisePoints(<<<<VIDEO_COMPOSITING, 0>>>>) :
       /\ Progress(<<<<VIDEO_COMPOSITING, 0>>>>, k)
       /\ IF k > 0
          THEN pc' = "fail" /\ exc' = ObserverError
          ELSE /\ pc' = IF VideoUrls(video_results) = <<>>
                        THEN "export_start" ELSE "composite_50"
               /\ exc' = exc
  /\ composite_url' = None
  /\ video_results' = <<>>
  /\ UNCHANGED <<inputs, wait_vars, job_vars, client_vars, post_vars, apc, mpc, escaped, script, segments, ai,
                 audio_results, music_result, vi, pending,
                 final_result, result, calls, closed>>

(* lines 466-483: one step per reported value; the last returns the URL *)
CompositeVideoStep ==
  /\ pc \in {"composite_50", "composite_80", "composite_100"}
  /\ LET p == CASE pc = "composite_50" -> 50
                [] pc = "composite_80" -> 80
                [] pc = "composite_100" -> 100
     IN \E k \in RaisePoints(<<<<VIDEO_COMPOSITING, p>>>>) :
          /\ Progress(<<<<VIDEO_COMPOSITING, p>>>>, k)
          /\ IF k > 0
             THEN pc' = "fail" /\ exc' = ObserverError /\ composite_url' = composite_url
             ELSE /\ pc' = CASE pc = "composite_50" -> "composite_80"
                             [] pc = "composite_80" -> "composite_100"
                             [] pc = "composite_100" -> "export_start"
                  /\ exc' = exc
                  /\ composite_url' = IF pc = "composite_100" THEN CompositeUrl
                                      ELSE composite_url
  /\ UNCHANGED <<inputs, wait_vars, job_vars, client_vars, post_vars, apc, mpc, escaped, script, segments, ai, audio_results,
                 music_result, vi, pending, video_results,
                 final_result, result, calls, closed>>

(* ---------------- Stage 6: _export_video ---------------- *)
(* lines 491-496: report 0%; short-circuit on a null composite *)
ExportVideoStart ==
  /\ pc = "export_start"
  /\ \E k \in RaisePoints(<<<<FINAL_EXPORT, 0>>>>) :
       /\ Progress(<<<<FINAL_EXPORT, 0>>>>, k)
       /\ IF k > 0
          THEN pc' = "fail" /\ exc' = ObserverError
          ELSE /\ pc' = IF composite_url = None THEN "completed" ELSE "export_50"
               /\ exc' = exc
  /\ final_result' = NullExport
  /\ UNCHANGED <<inputs, wait_vars, job_vars, client_vars, post_vars, apc, mpc, escaped, script, segments, ai, audio_results,
                 music_result, vi, pending, video_results,
                 composite_url, result, calls, closed>>

(* lines 508-528 *)
ExportVideoStep ==
  /\ pc \in {"export_50", "export_90", "export_100"}
  /\ LET p == CASE pc = "export_50" -> 50
                [] pc = "export_90" -> 90
                [] pc = "export_100" -> 100
     IN \E k \in RaisePoints(<<<<FINAL_EXPORT, p>>>>) :
          /\ Progress(<<<<FINAL_EXPORT, p>>>>, k)
          /\ IF k > 0
             THEN pc' = "fail" /\ exc' = ObserverError /\ final_result' = final_result
             ELSE /\ pc' = CASE pc = "export_50" -> "export_90"
                             [] pc = "export_90" -> "export_100"
                             [] pc = "export_100" -> "completed"
                  /\ exc' = exc
                  /\ final_result' = IF pc = "export_100" THEN Export(config_duration)
                                     ELSE final_result
  /\ UNCHANGED <<inputs, wait_vars, job_vars, client_vars, post_vars, apc, mpc, escaped, script, segments, ai, audio_results,
                 music_result, vi, pending, video_results,
                 composite_url, result, calls, closed>>

(* ---------------- run: the ends ---------------- *)
(* lines 189-206: report Completed and build the success result *)
RunCompleted ==
  /\ pc = "completed"
  /\ \E k \in RaisePoints(<<<<COMPLETED, 100>>>>) :
       /\ Progress(<<<<COMPLETED, 100>>>>, k)
       /\ IF k > 0
          THEN pc' = "fail" /\ exc' = ObserverError /\ result' = result
          ELSE /\ pc' = "cleanup_video"
               /\ exc' = exc
               /\ result' = [success |-> TRUE,
                             video_url |-> final_result.video_url,
                             thumbnail_url |-> final_result.thumbnail_url,
                             duration |-> final_result.duration,
                             error |-> None,
                             segments |-> Len(segments)]
  /\ UNCHANGED <<inputs, wait_vars, job_vars, client_vars, post_vars, apc, mpc, escaped, script, segments, ai, audio_results,
                 music_result, vi, pending, video_results,
                 composite_url, final_result, calls, closed>>

(* lines 208-213: the except clause of run; an exception raised inside it   *)
(* leaves run once the finally clause has run.  The try block's locals are *)
(* not read again and are dropped.                                         *)
RunExcept ==
  /\ pc = "fail"
  /\ \E k \in RaisePoints(<<<<FAILED, 0>>>>) :
       /\ Progress(<<<<FAILED, 0>>>>, k)
       /\ IF k > 0
          THEN escaped' = TRUE /\ exc' = ObserverError /\ result' = result
          ELSE escaped' = escaped /\ exc' = None /\ result' = CreateErrorResult(exc)
  /\ pc' = "cleanup_video"
  /\ vi' = 0
  /\ pending' = None
  /\ video_results' = <<>>
  /\ UNCHANGED <<inputs, wait_vars, job_vars, client_vars, post_vars, apc, mpc, script, segments, ai, audio_results,
                 music_result, composite_url, final_result, calls, closed>>

(* ---------------- _cleanup, lines 540-548 ---------------- *)
(* hasattr(self.music_agent, 'close'): StockMusicAgent has no close *)
HasClose(agent) == agent # "stock"

(* await self.video_agent.close(): a raise skips the remaining closes *)
CleanupVideo ==
  /\ pc = "cleanup_video"
  /\ closed' = [closed EXCEPT !["video"] = @ + 1]
  /\ \E raises \in BOOLEAN : pc' = IF raises THEN "returned" ELSE "cleanup_audio"
  /\ UNCHANGED <<inputs, wait_vars, job_vars, client_vars, post_vars, apc, mpc, exc, escaped, script, stages, current_stage,
                 segments, observed, ai, audio_results, music_result, vi,
                 pending, video_results, composite_url, final_result,
                 result, calls>>

CleanupAudio ==
  /\ pc = "cleanup_audio"
  /\ closed' = [closed EXCEPT !["audio"] = @ + 1]
  /\ \E raises \in BOOLEAN : pc' = IF raises THEN "returned" ELSE "cleanup_music"
  /\ UNCHANGED <<inputs, wait_vars, job_vars, client_vars, post_vars, apc, mpc, exc, escaped, script, stages, current_stage,
                 segments, observed, ai, audio_results, music_result, vi,
                 pending, video_results, composite_url, final_result,
                 result, calls>>

CleanupMusic ==
  /\ pc = "cleanup_music"
  /\ closed' = IF HasClose(music_agent)
               THEN [closed EXCEPT !["music"] = @ + 1] ELSE closed
  /\ pc' = "returned"
  /\ UNCHANGED <<inputs, wait_vars, job_vars, client_vars, post_vars, apc, mpc, exc, escaped, script, stages, current_stage,
                 segments, observed, ai, audio_results, music_result, vi,
                 pending, video_results, composite_url, final_result,
                 result, calls>>

Next ==
  \/ GenerateScriptStart
  \/ GenerateScriptUseExisting
  \/ GenerateScriptCall
  \/ GenerateScriptDone
  \/ GenerateScriptExcept
  \/ ParseAndFork
  \/ GenerateAudioStart
  \/ GenerateSpeechReturn
  \/ GenerateAudioResume
  \/ GenerateMusicStart
  \/ GenerateMusicReturn
  \/ GatherReturn
  \/ GatherRaise
  \/ GenerateVideosStart
  \/ GenerateVideosNext
  \/ GenerateVideoReturn
  \/ WaitForCompletionReturn
  \/ GenerateVideosDone
  \/ CompositeVideoStart
  \/ CompositeVideoStep
  \/ ExportVideoStart
  \/ ExportVideoStep
  \/ RunCompleted
  \/ RunExcept
  \/ CleanupVideo
  \/ CleanupAudio
  \/ CleanupMusic

Spec == Init /\ [][Next]_vars

(* Runs of one narrated scene (supplied or generated) for every product     *)
(* category: the inputs the music stage depends on.                         *)
NarratedScript ==
  [keys |-> {"headline", "scenes"},
   scenes |-> <<[narration |-> "text", duration |-> {}]>>]

InitMusic ==
  /\ existing_script \in {NoScript, NarratedScript}
  /\ product_category \in ProductCategories
  /\ config_duration \in ConfigDurations
  /\ music_agent \in MusicAgentKinds
  /\ on_progress \in Observers
  /\ InitState
  /\ WaitIdle
  /\ JobsIdle
  /\ ClientIdle
  /\ PostIdle

SpecMusic == InitMusic /\ [][Next]_vars


(* Runs over scripts whose scenes carry an empty, a whitespace-only or a    *)
(* worded narration: the inputs the audio stage's skip test depends on.    *)
NarrationTexts == {"", " ", "text"}

NarrationScripts ==
  {[keys |-> {"headline", "scenes"}, scenes |-> sc] :
     sc \in UNION {[1..n -> {[narration |-> t, duration |-> {}] :
                               t \in NarrationTexts}] : n \in 1..MaxScenes}}

InitNarration ==
  /\ existing_script \in {NoScript} \cup NarrationScripts
  /\ product_category = AbsentCategory
  /\ config_duration = DefaultDuration
  /\ music_agent \in MusicAgentKinds
  /\ on_progress \in Observers
  /\ InitState
  /\ WaitIdle
  /\ JobsIdle
  /\ ClientIdle
  /\ PostIdle

SpecNarration == InitNarration /\ [][Next]_vars


(* Runs of a 15-second advertisement: two scenes of default duration last   *)
(* 7.5 seconds each, the inputs the video stage's conversion of a segment   *)
(* length to whole seconds depends on.                                      *)
ShortDuration == 15

InitDurations ==
  /\ existing_script \in SuppliedScripts
  /\ product_category = AbsentCategory
  /\ config_duration = ShortDuration
  /\ music_agent \in MusicAgentKinds
  /\ on_progress \in Observers
  /\ InitState
  /\ WaitIdle
  /\ JobsIdle
  /\ ClientIdle
  /\ PostIdle

SpecDurations == InitDurations /\ [][Next]_vars


(* ---------------- wait_for_completion, step by step ---------------- *)
(* One call of RunwayVideoAgent.wait_for_completion (video_agent.py lines   *)
(* 177-208) with every poll a step, for small poll_interval and max_wait.   *)
pipeline_vars ==
  <<inputs, pc, apc, mpc, exc, escaped, script, stages, current_stage, segments,
    observed, ai, audio_results, music_result, vi, pending, video_results,
    composite_url, final_result, result, calls, closed>>

(* what get_task_status can return, video_agent.py lines 134-175: a status  *)
(* from status_map, the output URL (possibly absent) of a completed task,   *)
(* the failure text of a failed one, or FAILED after an exception           *)
PollResults ==
  {[status |-> "pending", video_url |-> None, error |-> None],
   [status |-> "processing", video_url |-> None, error |-> None],
   [status |-> "completed", video_url |-> "video url", error |-> None],
   [status |-> "completed", video_url |-> None, error |-> None],
   [status |-> "failed", video_url |-> None, error |-> "Unknown error"]}

(* lines 204-208 *)
PollTimeout ==
  [status |-> "failed", video_url |-> None,
   error |-> "Timeout waiting for video generation"]

InitWait ==
  /\ existing_script = NoScript
  /\ product_category = AbsentCategory
  /\ config_duration = DefaultDuration
  /\ music_agent = "stock"
  /\ on_progress = "none"
  /\ InitState
  /\ w_pc = "loop"
  /\ w_poll_interval \in 1..MaxPollInterval
  /\ w_max_wait \in 0..MaxMaxWait
  /\ w_elapsed = 0
  /\ w_polls = <<>>
  /\ w_result = NoPoll
  /\ JobsIdle
  /\ ClientIdle
  /\ PostIdle

(* The loop without line 202: elapsed is never advanced. *)
WaitSleepNoAdvance ==
  /\ w_pc = "sleep"
  /\ w_elapsed' = w_elapsed
  /\ w_pc' = "loop"
  /\ UNCHANGED <<pipeline_vars, job_vars, client_vars, post_vars, w_poll_interval, w_max_wait, w_polls, w_result>>

(* lines 195-199: the loop condition holds, get_task_status is awaited and  *)
(* a terminal result is returned                                           *)
WaitPoll ==
  /\ w_pc = "loop"
  /\ w_elapsed < w_max_wait
  /\ \E r \in PollResults :
       /\ w_polls' = Append(w_polls, r)
       /\ IF r.status \in {"completed", "failed"}
          THEN w_result' = r /\ w_pc' = "returned"
          ELSE w_result' = w_result /\ w_pc' = "sleep"
  /\ UNCHANGED <<pipeline_vars, job_vars, client_vars, post_vars, w_poll_interval, w_max_wait, w_elapsed>>

(* lines 201-202: await asyncio.sleep(poll_interval); elapsed += poll_interval *)
WaitSleep ==
  /\ w_pc = "sleep"
  /\ w_elapsed' = w_elapsed + w_poll_interval
  /\ w_pc' = "loop"
  /\ UNCHANGED <<pipeline_vars, job_vars, client_vars, post_vars, w_poll_interval, w_max_wait, w_polls, w_result>>

(* lines 194 and 204-208: the loop condition fails *)
WaitTimeout ==
  /\ w_pc = "loop"
  /\ w_elapsed >= w_max_wait
  /\ w_result' = PollTimeout
  /\ w_pc' = "returned"
  /\ UNCHANGED <<pipeline_vars, job_vars, client_vars, post_vars, w_poll_interval, w_max_wait, w_elapsed, w_polls>>

NextWait == WaitPoll \/ WaitSleep \/ WaitTimeout

(* The event loop resumes the coroutine after every await: a status request *)
(* ends (result or exception, lines 166-175) and a sleep ends.              *)
SpecWait == InitWait /\ [][NextWait]_vars /\ WF_vars(NextWait)

(* ---------------- generate_video_task and the job store ---------------- *)
(* The Celery task of a job (tasks/video_tasks.py lines 65-179), cancel_job *)
(* (366-388) and the periodic check_stalled_jobs (326-363) acting on the    *)
(* job documents in Redis.  A pipeline run is seen from the task: progress  *)
(* callbacks, then a PipelineResult or an exception.  Every Redis command   *)
(* is a step, so the tasks of different workers interleave between them.    *)

(* Error texts, as word lists: of a failed PipelineResult or an exception   *)
(* reaching the task (the first two), of the sweep and of cancel_job.       *)
ErrorMessages ==
  {<<"Script", "generation", "failed">>,
   <<"Connection", "refused">>,
   <<"Read", "Timeout">>}

StalledError == <<"Job", "timed", "out", "(stalled)">>
CancelledError == <<"Job", "cancelled", "by", "user">>

(* str.lower() on the words that occur *)
Lower(word) ==
  CASE word = "Connection" -> "connection"
    [] word = "Timeout" -> "timeout"
    [] word = "Script" -> "script"
    [] word = "Read" -> "read"
    [] word = "Job" -> "job"
    [] OTHER -> word

(* line 173: "timeout" in error_msg.lower() or "connection" in ...lower() *)
IsTransient(error_msg) ==
  \/ \E i \in 1..Len(error_msg) : Lower(error_msg[i]) = "timeout"
  \/ \E i \in 1..Len(error_msg) : Lower(error_msg[i]) = "connection"

(* update_job_status, lines 30-55: the document replaces the stored one and *)
(* is stamped with the current time (age 0)                                *)
JobData(status, error) == [status |-> status, error |-> error, updated_at |-> 0]

(* A test that takes every processing document for stalled, whatever its   *)
(* age.                                                                     *)
StalledWhateverAge(data) ==
  data # NoJob /\ data.status = "processing"

(* lines 343-348: status processing and last update more than 30 min ago *)
Stalled(data) ==
  data # NoJob /\ data.status = "processing" /\ data.updated_at > StallThreshold

InitJobs ==
  /\ existing_script = NoScript
  /\ product_category = AbsentCategory
  /\ config_duration = DefaultDuration
  /\ music_agent = "stock"
  /\ on_progress = "none"
  /\ InitState
  /\ WaitIdle
  /\ JobsIdle
  /\ ClientIdle
  /\ PostIdle

(* api/v1/videos.py lines 146-153: generate_video_task.delay(...) *)
Dispatch(j) ==
  /\ task[j].state = "none"
  /\ task' = [task EXCEPT ![j].state = "queued"]
  /\ UNCHANGED <<pipeline_vars, wait_vars, client_vars, post_vars, cancel, jobs, sweep>>

(* lines 84-95: a worker starts (or retries) the task *)
TaskStart(j) ==
  /\ task[j].state = "queued"
  /\ task' = [task EXCEPT ![j].state = "running"]
  /\ jobs' = [jobs EXCEPT ![j] = JobData("processing", NoError)]
  /\ UNCHANGED <<pipeline_vars, wait_vars, client_vars, post_vars, cancel, sweep>>

(* lines 97-104: the pipeline's progress callback *)
OnProgress(j) ==
  /\ task[j].state = "running"
  /\ jobs' = [jobs EXCEPT ![j] = JobData("processing", NoError)]
  /\ UNCHANGED <<pipeline_vars, wait_vars, client_vars, post_vars, cancel, task, sweep>>

(* lines 125-157: the pipeline returned a PipelineResult *)
TaskReturn(j) ==
  /\ task[j].state = "running"
  /\ \/ /\ jobs' = [jobs EXCEPT ![j] = JobData("completed", NoError)]
        /\ task' = [task EXCEPT ![j].state = "done"]
     \/ \E error \in ErrorMessages :
          /\ jobs' = [jobs EXCEPT ![j] = JobData("failed", error)]
          /\ task' = [task EXCEPT ![j].state = "done"]
  /\ UNCHANGED <<pipeline_vars, wait_vars, client_vars, post_vars, cancel, sweep>>

(* lines 159-179: an exception reached the task.  self.retry re-queues the  *)
(* task while request.retries < max_retries and re-raises exc after that.   *)
TaskExcept(j) ==
  /\ task[j].state = "running"
  /\ \E error_msg \in ErrorMessages :
       /\ jobs' = [jobs EXCEPT ![j] = JobData("failed", error_msg)]
       /\ task' = IF IsTransient(error_msg) /\ task[j].retries < MaxRetries
                  THEN [task EXCEPT ![j].state = "queued", ![j].retries = @ + 1]
                  ELSE [task EXCEPT ![j].state = "done"]
  /\ UNCHANGED <<pipeline_vars, wait_vars, client_vars, post_vars, cancel, sweep>>

(* celery_app.py lines 35-36: the worker process is killed at the hard time *)
(* limit (or dies); nothing is written                                     *)
WorkerLost(j) ==
  /\ task[j].state = "running"
  /\ task' = [task EXCEPT ![j].state = "lost"]
  /\ UNCHANGED <<pipeline_vars, wait_vars, client_vars, post_vars, cancel, jobs, sweep>>

(* lines 366-388: cancel_job, its read and its write taken as one step *)
CancelJob(j) ==
  /\ jobs[j] # NoJob
  /\ jobs[j].status \notin {"completed", "failed", "cancelled"}
  /\ jobs' = [jobs EXCEPT ![j] = JobData("cancelled", CancelledError)]
  /\ UNCHANGED <<pipeline_vars, wait_vars, client_vars, post_vars, cancel, task, sweep>>

(* Time passes.  updated_at is kept as the document's age, and only for a  *)
(* processing document: no other document's updated_at is read (line 343). *)
Tick ==
  /\ \E j \in JobIds : jobs[j].status = "processing" /\ jobs[j].updated_at < MaxAge
  /\ jobs' = [j \in JobIds |->
                IF jobs[j].status = "processing" /\ jobs[j].updated_at < MaxAge
                THEN [jobs[j] EXCEPT !.updated_at = @ + SweepPeriod]
                ELSE jobs[j]]
  /\ UNCHANGED <<pipeline_vars, wait_vars, client_vars, post_vars, cancel, task, sweep>>

(* lines 331-336: the sweep starts and scans the job keys *)
SweepStart ==
  /\ sweep.pc = "idle"
  /\ sweep' = [pc |-> "scan", todo |-> {j \in JobIds : jobs[j] # NoJob}, key |-> None]
  /\ UNCHANGED <<pipeline_vars, wait_vars, client_vars, post_vars, cancel, jobs, task>>

(* lines 338-348: redis get of the next key and the test of its document *)
SweepGet ==
  /\ sweep.pc = "scan"
  /\ \E k \in sweep.todo :
       sweep' = IF Stalled(jobs[k])
                THEN [pc |-> "write", todo |-> sweep.todo \ {k}, key |-> k]
                ELSE [sweep EXCEPT !.todo = @ \ {k}]
  /\ UNCHANGED <<pipeline_vars, wait_vars, client_vars, post_vars, cancel, jobs, task>>

(* A sweep that restamps the stalled document and leaves its status. *)
SweepSetKeepsStatus ==
  /\ sweep.pc = "write"
  /\ jobs' = [jobs EXCEPT ![sweep.key] = JobData(jobs[sweep.key].status, StalledError)]
  /\ sweep' = [sweep EXCEPT !.pc = "scan", !.key = None]
  /\ UNCHANGED <<pipeline_vars, wait_vars, client_vars, post_vars, cancel, task>>

(* lines 349-357: the document read is stored back as failed *)
SweepSet ==
  /\ sweep.pc = "write"
  /\ jobs' = [jobs EXCEPT ![sweep.key] = JobData("failed", StalledError)]
  /\ sweep' = [sweep EXCEPT !.pc = "scan", !.key = None]
  /\ UNCHANGED <<pipeline_vars, wait_vars, client_vars, post_vars, cancel, task>>

(* lines 359-363: no key left *)
SweepEnd ==
  /\ sweep.pc = "scan"
  /\ sweep.todo = {}
  /\ sweep' = SweepIdle
  /\ UNCHANGED <<pipeline_vars, wait_vars, client_vars, post_vars, cancel, jobs, task>>

SweepStep == SweepStart \/ SweepGet \/ SweepSet \/ SweepEnd

NextJobs ==
  \/ \E j \in JobIds : Dispatch(j)
  \/ \E j \in JobIds : TaskStart(j)
  \/ \E j \in JobIds : OnProgress(j)
  \/ \E j \in JobIds : TaskReturn(j)
  \/ \E j \in JobIds : TaskExcept(j)
  \/ \E j \in JobIds : WorkerLost(j)
  \/ \E j \in JobIds : CancelJob(j)
  \/ Tick
  \/ SweepStart
  \/ SweepGet
  \/ SweepSet
  \/ SweepEnd

(* Time passes, and the beat schedule (celery_app.py lines 61-64) starts    *)
(* check_stalled_jobs every 5 minutes, which a worker runs to its end.      *)
SpecJobs == InitJobs /\ [][NextJobs]_vars /\ WF_vars(Tick) /\ WF_vars(SweepStep)


(* ---------------- the cancel endpoint, step by step ---------------- *)
(* POST /{job_id}/cancel (api/v1/videos.py lines 245-283) reads the job's   *)
(* document, answers 404 or 400, or calls cancel_job (video_tasks.py lines  *)
(* 366-388), which reads the document again and then writes it.  Each redis *)
(* command is a step; one request is served at a time and the response of  *)
(* the last request is kept.                                               *)
TerminalJobStatuses == {"completed", "failed", "cancelled"}

Responded(j, response) == [pc |-> "idle", job |-> j, response |-> response]

(* videos.py lines 256-268 *)
CancelRequest(j) ==
  /\ cancel.pc = "idle"
  /\ cancel' = IF jobs[j] = NoJob THEN Responded(j, "404 Job not found")
               ELSE IF jobs[j].status \in TerminalJobStatuses
               THEN Responded(j, "400 Cannot cancel job")
               ELSE [pc |-> "cancel_job", job |-> j, response |-> None]
  /\ UNCHANGED <<pipeline_vars, wait_vars, client_vars, post_vars, jobs, task, sweep>>

(* video_tasks.py lines 371-376 and videos.py lines 280-283 *)
CancelJobGet ==
  /\ cancel.pc = "cancel_job"
  /\ cancel' = IF \/ jobs[cancel.job] = NoJob
                  \/ jobs[cancel.job].status \in TerminalJobStatuses
               THEN Responded(cancel.job, "Failed to cancel job")
               ELSE [cancel EXCEPT !.pc = "update"]
  /\ UNCHANGED <<pipeline_vars, wait_vars, client_vars, post_vars, jobs, task, sweep>>

(* video_tasks.py lines 378-388 and videos.py lines 273-278 *)
CancelJobSet ==
  /\ cancel.pc = "update"
  /\ jobs' = [jobs EXCEPT ![cancel.job] = JobData("cancelled", CancelledError)]
  /\ cancel' = Responded(cancel.job, "Job cancelled successfully")
  /\ UNCHANGED <<pipeline_vars, wait_vars, client_vars, post_vars, task, sweep>>

(* one job is accepted; the other id stays unknown to the store *)
AcceptedJob == "job-a"

NextCancel ==
  \/ Dispatch(AcceptedJob)
  \/ \E j \in JobIds : TaskStart(j)
  \/ \E j \in JobIds : OnProgress(j)
  \/ \E j \in JobIds : TaskReturn(j)
  \/ \E j \in JobIds : TaskExcept(j)
  \/ \E j \in JobIds : WorkerLost(j)
  \/ \E j \in JobIds : CancelRequest(j)
  \/ CancelJobGet
  \/ CancelJobSet
  \/ Tick
  \/ SweepStart
  \/ SweepGet
  \/ SweepSet
  \/ SweepEnd

SpecCancel == InitJobs /\ [][NextCancel]_vars


(* One accepted job, with time and the beat schedule's sweep going on       *)
(* (celery_app.py lines 61-64).                                             *)
SpecCeiling == SpecCancel /\ WF_vars(Tick) /\ WF_vars(SweepStep)

(* ---------------- the provider clients' operations ---------------- *)
(* One call of one operation of a provider client against one outcome of   *)
(* its HTTP exchange: the request raises (a network error, or a decoding   *)
(* error of response.json()), raise_for_status raises HTTPStatusError, or  *)
(* the decoded body is returned.                                           *)
ClientOps ==
  {"generate_video", "get_task_status", "generate_speech", "generate_music"}

StatusCodes == {400, 401, 429, 500}

(* str(e) of the exception raised; a timeout of the HTTP client carries no *)
(* message                                                                 *)
ExceptionMessages == {"", "Connection refused", "Expecting value"}

(* dict.get(key, default) on the decoded body *)
Get(data, key, default) == IF key \in data.keys THEN data[key] ELSE default

NoBody == [keys |-> {}, id |-> None, status |-> None, output |-> <<>>,
           failure |-> None]

(* bodies answering a generation request: with or without the task id *)
TaskBodies == {NoBody, [NoBody EXCEPT !.keys = {"id"}, !.id = "task-1"]}

(* bodies answering a status request *)
StatusBodies ==
  {[keys |-> ks, id |-> None, status |-> st, output |-> out, failure |-> f] :
     ks \in SUBSET {"status", "output", "failure"},
     st \in {"PENDING", "RUNNING", "SUCCEEDED", "FAILED", "THROTTLED"},
     out \in {<<>>, <<"video url">>},
     f \in {"", "Content moderation"}}

BodiesOf(op) ==
  CASE op = "get_task_status" -> StatusBodies
    [] op = "generate_speech" -> {NoBody}
    [] OTHER -> TaskBodies

ExchangesOf(op) ==
  {[raises |-> "Exception", status_code |-> 0, message |-> m, data |-> NoBody] :
     m \in ExceptionMessages}
  \cup {[raises |-> "HTTPStatusError", status_code |-> c, message |-> "",
         data |-> NoBody] : c \in StatusCodes}
  \cup {[raises |-> "none", status_code |-> 200, message |-> "", data |-> d] :
          d \in BodiesOf(op)}

InitClient ==
  /\ existing_script = NoScript
  /\ product_category = AbsentCategory
  /\ config_duration = DefaultDuration
  /\ music_agent = "stock"
  /\ on_progress = "none"
  /\ InitState
  /\ WaitIdle
  /\ JobsIdle
  /\ http_op \in ClientOps
  /\ http_exchange \in ExchangesOf(http_op)
  /\ http_pc = "called"
  /\ http_result = None
  /\ PostIdle

(* video_agent.py lines 134-139 *)
VideoStatusMap(status_str) ==
  CASE status_str = "PENDING" -> "pending"
    [] status_str = "RUNNING" -> "processing"
    [] status_str = "SUCCEEDED" -> "completed"
    [] status_str = "FAILED" -> "failed"
    [] OTHER -> "pending"

VideoGenerationResult(task_id, status, video_url, error) ==
  [task_id |-> task_id, status |-> status, video_url |-> video_url,
   error |-> error]

MusicGenerationResult(task_id, status, error) ==
  [task_id |-> task_id, status |-> status, audio_url |-> None, error |-> error]

AudioGenerationResult(success, audio_data, error) ==
  [success |-> success, audio_data |-> audio_data, error |-> error]

(* the operation op returns res *)
ClientReturns(op, res) ==
  /\ http_pc = "called"
  /\ http_op = op
  /\ http_pc' = "returned"
  /\ http_result' = res
  /\ UNCHANGED <<pipeline_vars, wait_vars, job_vars, post_vars, http_op, http_exchange>>

(* RunwayVideoAgent.generate_video, video_agent.py lines 81-122 *)
GenerateVideo ==
  LET x == http_exchange
  IN ClientReturns("generate_video",
       CASE x.raises = "HTTPStatusError" ->
              VideoGenerationResult("", "failed", None,
                                    "API error: " \o ToString(x.status_code))
         [] x.raises = "Exception" ->
              VideoGenerationResult("", "failed", None, x.message)
         [] OTHER ->
              VideoGenerationResult(Get(x.data, "id", None), "pending", None,
                                    None))

(* RunwayVideoAgent.get_task_status, video_agent.py lines 124-175; an empty *)
(* output list makes line 155 raise IndexError inside the try               *)
GetTaskStatus ==
  LET x == http_exchange
      status == VideoStatusMap(Get(x.data, "status", "PENDING"))
      output == Get(x.data, "output", <<None>>)
  IN ClientReturns("get_task_status",
       CASE x.raises = "HTTPStatusError" ->
              VideoGenerationResult("task-1", "failed", None,
                                    "Status check failed: "
                                      \o ToString(x.status_code))
         [] x.raises = "Exception" ->
              VideoGenerationResult("task-1", "failed", None, x.message)
         [] OTHER ->
              IF status = "completed"
              THEN IF output = <<>>
                   THEN VideoGenerationResult("task-1", "failed", None,
                                              "list index out of range")
                   ELSE VideoGenerationResult("task-1", status, output[1], None)
              ELSE IF status = "failed"
              THEN VideoGenerationResult("task-1", status, None,
                                         Get(x.data, "failure", "Unknown error"))
              ELSE VideoGenerationResult("task-1", status, None, None))

(* ElevenLabsAudioAgent.generate_speech, audio_agent.py lines 211-244 *)
GenerateSpeech ==
  LET x == http_exchange
  IN ClientReturns("generate_speech",
       CASE x.raises = "HTTPStatusError" ->
              AudioGenerationResult(FALSE, None,
                                    "API error: " \o ToString(x.status_code))
         [] x.raises = "Exception" ->
              AudioGenerationResult(FALSE, None, x.message)
         [] OTHER -> AudioGenerationResult(TRUE, "audio bytes", None))

(* SunoMusicAgent.generate_music, music_agent.py lines 133-164 *)
GenerateMusic ==
  LET x == http_exchange
  IN ClientReturns("generate_music",
       CASE x.raises = "HTTPStatusError" ->
              MusicGenerationResult("", "failed",
                                    "API error: " \o ToString(x.status_code))
         [] x.raises = "Exception" ->
              MusicGenerationResult("", "failed", x.message)
         [] OTHER ->
              MusicGenerationResult(Get(x.data, "id", ""), "pending", None))

NextClient ==
  \/ GenerateVideo
  \/ GetTaskStatus
  \/ GenerateSpeech
  \/ GenerateMusic

SpecClient == InitClient /\ [][NextClient]_vars


(* ---------------- a run with the SunoMusicAgent ---------------- *)
(* Runs of a pipeline whose music_agent is a SunoMusicAgent: the call that  *)
(* _generate_music awaits is the client operation GenerateMusic, for every  *)
(* outcome of its HTTP exchange.                                            *)
InitSuno ==
  /\ existing_script \in {NoScript, NarratedScript}
  /\ product_category = AbsentCategory
  /\ config_duration = DefaultDuration
  /\ music_agent = "generative"
  /\ on_progress \in Observers
  /\ InitState
  /\ WaitIdle
  /\ JobsIdle
  /\ http_op = "generate_music"
  /\ http_exchange \in ExchangesOf("generate_music")
  /\ http_pc = "called"
  /\ http_result = None
  /\ PostIdle

(* the request is made once _generate_music has issued the call *)
SunoGenerateMusic == mpc = "generating" /\ GenerateMusic

NextSuno == Next \/ SunoGenerateMusic

SpecSuno == InitSuno /\ [][NextSuno]_vars

(* ---------------- generate_video_task around one run ---------------- *)
(* update_job_status, lines 30-55, with the document's result, error and    *)
(* exports keys (progress and updated_at are left out): a fresh document    *)
(* replaces the stored one; result and error are stored when truthy         *)
UpdateJobStatus(status, current_step, job_result, error) ==
  [status |-> status,
   current_step |-> current_step,
   result |-> job_result,
   error |-> IF error = None \/ error = "" THEN Absent ELSE error,
   exports |-> {}]

(* lines 131-136: the result dict of a successful run *)
JobResultOf(pipeline_result) ==
  [video_url |-> pipeline_result.video_url,
   thumbnail_url |-> pipeline_result.thumbnail_url]

Dispatched(video_url) == [pc |-> "queued", video_url |-> video_url, job_data |-> NoRecord]

(* lines 84-95: the task has started, written its first document and        *)
(* entered run_video_pipeline                                               *)
InitTask ==
  /\ existing_script \in SuppliedScripts
  /\ product_category \in {AbsentCategory}
  /\ config_duration \in ConfigDurations
  /\ music_agent \in MusicAgentKinds
  /\ on_progress \in Observers
  /\ InitState
  /\ WaitIdle
  /\ JobsIdle
  /\ ClientIdle
  /\ record = UpdateJobStatus("processing", "initializing", AbsentResult, None)
  /\ posted = <<>>
  /\ post = [t \in TaskNames |->
               IF t = "generate_video_task"
               THEN [pc |-> "running", video_url |-> None, job_data |-> NoRecord]
               ELSE NotDispatched]
  /\ status_response = NoResponse

(* A task that goes on to the dispatch whatever the result. *)
GenerateVideoTaskWriteAlwaysDispatches ==
  /\ post["generate_video_task"].pc = "running"
  /\ pc = "returned"
  /\ ~escaped
  /\ record' = IF result.success
               THEN UpdateJobStatus("completed", "completed", JobResultOf(result), None)
               ELSE UpdateJobStatus("failed", None, AbsentResult, result.error)
  /\ post' = [post EXCEPT !["generate_video_task"].pc = "written"]
  /\ UNCHANGED <<pipeline_vars, wait_vars, job_vars, client_vars, posted, status_response>>

(* lines 125-139 and 148-157: run_video_pipeline returned; the status       *)
(* document is written from the PipelineResult                              *)
GenerateVideoTaskWrite ==
  /\ post["generate_video_task"].pc = "running"
  /\ pc = "returned"
  /\ ~escaped
  /\ IF result.success
     THEN /\ record' = UpdateJobStatus("completed", "completed", JobResultOf(result), None)
          /\ post' = [post EXCEPT !["generate_video_task"].pc = "written"]
     ELSE /\ record' = UpdateJobStatus("failed", None, AbsentResult, result.error)
          /\ post' = [post EXCEPT !["generate_video_task"].pc = "done"]
  /\ UNCHANGED <<pipeline_vars, wait_vars, job_vars, client_vars, posted, status_response>>

(* lines 142-147: post_process_video.delay(job_id, project_id, video_url) *)
GenerateVideoTaskDispatch ==
  /\ post["generate_video_task"].pc = "written"
  /\ posted' = Append(posted, result.video_url)
  /\ post' = [post EXCEPT !["generate_video_task"].pc = "done",
                          !["post_process_video"] = Dispatched(result.video_url)]
  /\ UNCHANGED <<pipeline_vars, wait_vars, job_vars, client_vars, record, status_response>>

(* lines 159-179: an exception left run_video_pipeline; failed is written,  *)
(* and a retry is requested when the message names a timeout or a           *)
(* connection (the message is the observer's)                               *)
GenerateVideoTaskExcept ==
  /\ post["generate_video_task"].pc = "running"
  /\ pc = "returned"
  /\ escaped
  /\ record' = UpdateJobStatus("failed", None, AbsentResult, exc)
  /\ \E transient \in BOOLEAN :
       post' = [post EXCEPT !["generate_video_task"].pc =
                              IF transient THEN "retry" ELSE "done"]
  /\ UNCHANGED <<pipeline_vars, wait_vars, job_vars, client_vars, posted, status_response>>

NextTask ==
  \/ Next
  \/ GenerateVideoTaskWrite
  \/ GenerateVideoTaskDispatch
  \/ GenerateVideoTaskExcept

SpecTask == InitTask /\ [][NextTask]_vars

(* ---------------- post_process_video and its tasks ---------------- *)
(* str.replace(".mp4", new) on the URLs that occur *)
ReplaceMp4(url, new) ==
  CASE url = "final_youtube.mp4" -> "final_youtube" \o new
    [] url = "composite.mp4" -> "composite" \o new
    [] OTHER -> url

(* exports[format_name] = export_url on a dict kept as its set of items *)
SetItem(dict, key, value) ==
  {item \in dict : item.key # key} \cup {[key |-> key, value |-> value]}

(* generate_video_task has written completed for a successful run (with or  *)
(* without a video) and dispatched post_process_video                      *)
InitPost ==
  /\ existing_script = NoScript
  /\ product_category = AbsentCategory
  /\ config_duration = DefaultDuration
  /\ music_agent = "stock"
  /\ on_progress = "none"
  /\ InitState
  /\ WaitIdle
  /\ JobsIdle
  /\ ClientIdle
  /\ \E final \in {NullExport, Export(DefaultDuration)} :
       /\ record = UpdateJobStatus("completed", "completed", JobResultOf(final), None)
       /\ posted = <<final.video_url>>
       /\ post = [t \in TaskNames |->
                    CASE t = "generate_video_task" ->
                           [pc |-> "done", video_url |-> None, job_data |-> NoRecord]
                      [] t = "post_process_video" -> Dispatched(final.video_url)
                      [] OTHER -> NotDispatched]
  /\ status_response = NoResponse

(* lines 194-208: the four tasks are put on the queue *)
PostProcessVideo ==
  /\ post["post_process_video"].pc = "queued"
  /\ post' = [t \in TaskNames |->
                CASE t = "post_process_video" -> [post[t] EXCEPT !.pc = "done"]
                  [] t \in PostProcessingTasks -> Dispatched(post["post_process_video"].video_url)
                  [] OTHER -> post[t]]
  /\ UNCHANGED <<pipeline_vars, wait_vars, job_vars, client_vars, record, posted, status_response>>

(* lines 216-225: the thumbnail URL is derived (None has no replace) and    *)
(* the document is read                                                     *)
GenerateThumbnailGet ==
  LET t == "generate_thumbnail" IN
  /\ post[t].pc = "queued"
  /\ post' = [post EXCEPT ![t] =
                IF post[t].video_url = None
                THEN [@ EXCEPT !.pc = "raised"]
                ELSE IF record # NoRecord /\ record.result # AbsentResult
                THEN [@ EXCEPT !.pc = "read", !.job_data = record]
                ELSE [@ EXCEPT !.pc = "done"]]
  /\ UNCHANGED <<pipeline_vars, wait_vars, job_vars, client_vars, record, posted, status_response>>

(* lines 226-233: the document read is stored back with the thumbnail URL *)
GenerateThumbnailSet ==
  LET t == "generate_thumbnail" IN
  /\ post[t].pc = "read"
  /\ record' = [post[t].job_data EXCEPT
                  !.result.thumbnail_url = ReplaceMp4(post[t].video_url, "_thumb.jpg")]
  /\ post' = [post EXCEPT ![t].pc = "done", ![t].job_data = NoRecord]
  /\ UNCHANGED <<pipeline_vars, wait_vars, job_vars, client_vars, posted, status_response>>

(* lines 244-262: the export URL is derived and the document is read *)
ExportVideoFormatGet(format_name) ==
  LET t == ExportTask(format_name) IN
  /\ post[t].pc = "queued"
  /\ post' = [post EXCEPT ![t] =
                IF post[t].video_url = None
                THEN [@ EXCEPT !.pc = "raised"]
                ELSE IF record # NoRecord
                THEN [@ EXCEPT !.pc = "read", !.job_data = record]
                ELSE [@ EXCEPT !.pc = "done"]]
  /\ UNCHANGED <<pipeline_vars, wait_vars, job_vars, client_vars, record, posted, status_response>>

(* lines 263-273: the document read is stored back with the export added *)
ExportVideoFormatSet(format_name) ==
  LET t == ExportTask(format_name) IN
  /\ post[t].pc = "read"
  /\ record' = [post[t].job_data EXCEPT
                  !.exports = SetItem(@, format_name,
                                      ReplaceMp4(post[t].video_url,
                                                 "_" \o format_name \o ".mp4"))]
  /\ post' = [post EXCEPT ![t].pc = "done", ![t].job_data = NoRecord]
  /\ UNCHANGED <<pipeline_vars, wait_vars, job_vars, client_vars, posted, status_response>>

(* lines 276-289: logs only *)
UpdateProjectVideo ==
  /\ post["update_project_video"].pc = "queued"
  /\ post' = [post EXCEPT !["update_project_video"].pc = "done"]
  /\ UNCHANGED <<pipeline_vars, wait_vars, job_vars, client_vars, record, posted, status_response>>

(* celery_app.py lines 38-40: four worker processes take tasks from the     *)
(* queue, so the dispatched tasks run in any interleaving of their Redis    *)
(* commands                                                                 *)
NextPost ==
  \/ PostProcessVideo
  \/ GenerateThumbnailGet
  \/ GenerateThumbnailSet
  \/ \E i \in 1..Len(ExportFormats) : ExportVideoFormatGet(ExportFormats[i])
  \/ \E i \in 1..Len(ExportFormats) : ExportVideoFormatSet(ExportFormats[i])
  \/ UpdateProjectVideo

SpecPost == InitPost /\ [][NextPost]_vars

(* ---------------- the status endpoint ---------------- *)
(* api/v1/videos.py lines 66-73: the names of the steps (labels and weights *)
(* are left out)                                                            *)
PIPELINE_STEPS ==
  <<"script_processing", "audio_generation", "music_generation",
    "video_generation", "video_compositing", "final_export">>

(* the current_step values the worker writes with status processing: the    *)
(* first document's (video_tasks.py line 93) and progress.stage.value for   *)
(* every stage _update_progress is called with (line 103)                   *)
ProcessingSteps == {"initializing"} \cup AllStages

(* lines 189-211: the loop over PIPELINE_STEPS *)
RECURSIVE StepStatuses(_, _, _)
StepStatuses(steps, current_step, step_reached) ==
  IF steps = <<>> THEN <<>>
  ELSE LET name == Head(steps)
       IN IF name = current_step
          THEN <<[name |-> name, status |-> "in_progress"]>>
                 \o StepStatuses(Tail(steps), current_step, TRUE)
          ELSE IF ~step_reached
          THEN <<[name |-> name, status |-> "completed"]>>
                 \o StepStatuses(Tail(steps), current_step, FALSE)
          ELSE <<[name |-> name, status |-> "pending"]>>
                 \o StepStatuses(Tail(steps), current_step, TRUE)

(* the task has started and written its first document *)
InitStatus ==
  /\ existing_script = NoScript
  /\ product_category = AbsentCategory
  /\ config_duration = DefaultDuration
  /\ music_agent = "stock"
  /\ on_progress = "none"
  /\ InitState
  /\ WaitIdle
  /\ JobsIdle
  /\ ClientIdle
  /\ record = UpdateJobStatus("processing", "initializing", AbsentResult, None)
  /\ posted = <<>>
  /\ post = [t \in TaskNames |->
               IF t = "generate_video_task"
               THEN [pc |-> "running", video_url |-> None, job_data |-> NoRecord]
               ELSE NotDispatched]
  /\ status_response = NoResponse

(* video_tasks.py lines 97-104: the progress callback stores a processing   *)
(* document with the stage's value                                          *)
OnProgressStage ==
  /\ post["generate_video_task"].pc = "running"
  /\ \E stage \in AllStages :
       record' = UpdateJobStatus("processing", stage, AbsentResult, None)
  /\ UNCHANGED <<pipeline_vars, wait_vars, job_vars, client_vars, posted, post, status_response>>

(* video_tasks.py lines 125-157: the task's last document *)
TaskEnds ==
  /\ post["generate_video_task"].pc = "running"
  /\ \/ record' = UpdateJobStatus("completed", "completed",
                                  JobResultOf(Export(DefaultDuration)), None)
     \/ record' = UpdateJobStatus("failed", None, AbsentResult, "Script generation failed")
  /\ post' = [post EXCEPT !["generate_video_task"].pc = "done"]
  /\ UNCHANGED <<pipeline_vars, wait_vars, job_vars, client_vars, posted, status_response>>

(* api/v1/videos.py lines 168-229: get_video_status for a stored document   *)
(* (progress, estimated_remaining, video and error are left out)            *)
GetVideoStatus ==
  /\ record # NoRecord
  /\ status_response' =
       [status |-> record.status,
        current_step |-> record.current_step,
        steps |-> StepStatuses(PIPELINE_STEPS, record.current_step, FALSE)]
  /\ UNCHANGED <<pipeline_vars, wait_vars, job_vars, client_vars, record, posted, post>>

NextStatus ==
  \/ OnProgressStage
  \/ TaskEnds
  \/ GetVideoStatus

SpecStatus == InitStatus /\ [][NextStatus]_vars

(* ======================= properties ======================= *)
Returned == pc = "returned"

HasStage(stage) == \E k \in 1..Len(stages) : stages[k].stage = stage

CallsOf(client) == SelectSeq(calls, LAMBDA c : c.client = client)

Last(seq) == seq[Len(seq)]

(* every segment's video generation ended in failure *)
AllSegmentsFailed ==
  /\ Len(segments) >= 1
  /\ Len(video_results) = Len(segments)
  /\ \A i \in 1..Len(video_results) : ~video_results[i].success

(* C1: when the Compositing Stage starts with N >= 1 segments whose video   *)
(* generation all failed, the run ends in failure at that stage: the step   *)
(* taken either raises into the failure handler or returns a result with    *)
(* success = false and error set; the run does not go on towards Completed. *)
C1_AllSegmentsFailIsHardFailure ==
  [][(pc = "composite_start" /\ AllSegmentsFailed)
       => \/ pc' = "composite_start"
          \/ pc' = "fail"
          \/ (pc' = "cleanup_video" /\ ~result'.success /\ result'.error # None)]_vars

(* C2: run never lets an exception reach its caller: once it has returned,  *)
(* no exception has escaped and the result is well formed (success, or      *)
(* success = false with error set).                                         *)
C2_RunAlwaysReturnsResult ==
  Returned => (~escaped /\ (result.success \/ result.error # None))

(* C3: after any run, close has been called exactly once on each provider   *)
(* client acquired at construction (script, video, audio, music).           *)
C3_EveryClientClosedOnce ==
  Returned => \A c \in Clients : closed[c] = 1

(* C4: the Video Stage has not started (no Video progress record, no video  *)
(* provider call) unless both the Audio and the Music Stage have returned.  *)
VideoStageStarted == HasStage(VIDEO_GENERATION) \/ CallsOf("video") # <<>>

C4_VideoAfterAudioAndMusic ==
  VideoStageStarted => (apc = "done" /\ mpc = "done")

C4_Witness ==
  /\ music_agent = "generative"
  /\ CallsOf("audio") # <<>>
  /\ CallsOf("music") # <<>>
  /\ CallsOf("video") # <<>>

(* C5: a failure of the progress observer is not propagated: a returned run *)
(* has not raised and its result does not carry the observer's error.       *)
C5_ObserverFailureNotPropagated ==
  Returned => (~escaped /\ result.error # ObserverError)

(* C6: for every stage the progress values passed to the observer are       *)
(* within 0..100 and non-decreasing, and a stage that completed was last    *)
(* observed at exactly 100.                                                 *)
StageCompleted(stage) ==
  CASE stage = SCRIPT_GENERATION -> pc \in {"parse", "gather"}
    [] stage = AUDIO_GENERATION -> apc = "done"
    [] stage = MUSIC_GENERATION -> mpc = "done"
    [] stage = VIDEO_GENERATION -> pc = "composite_start"
    [] stage = VIDEO_COMPOSITING -> pc = "export_start" /\ composite_url # None
    [] stage = FINAL_EXPORT -> pc = "completed"
    [] OTHER -> FALSE

C6_ProgressMonotone ==
  \A stage \in AllStages :
    LET seq == observed[stage] IN
    /\ \A i \in 1..Len(seq) : seq[i] \in 0..100
    /\ \A i \in 1..(Len(seq) - 1) : seq[i] <= seq[i + 1]
    /\ (on_progress # "none" /\ StageCompleted(stage))
         => (seq # <<>> /\ Last(seq) = 100)

(* C7: whatever subset of the speech calls fails (failure result or raised  *)
(* exception), the Audio Stage keeps one result per segment examined,       *)
(* result i describing segment i with its success tag, returns N results,   *)
(* is not aborted by a speech call, and the run then enters the Video Stage.*)
AudioResultDescribes(i) ==
  /\ audio_results[i].audio_data = segments[i].audio_data
  /\ audio_results[i].success =
       (segments[i].narration = "" \/ segments[i].audio_data # None)

C7_Results ==
  /\ (apc = "speech" /\ pc = "gather") => Len(audio_results) = ai - 1
  /\ (apc = "sleep" /\ pc = "gather") => Len(audio_results) = ai
  /\ (apc = "done" /\ pc = "gather") => Len(audio_results) = Len(segments)
  /\ (apc \in {"speech", "sleep", "done"} /\ pc = "gather")
       => \A i \in 1..Len(audio_results) : AudioResultDescribes(i)

C7_Step ==
  /\ apc = "speech" => apc' \in {"speech", "sleep"}
  /\ (pc = "gather" /\ apc = "done" /\ mpc = "done") => pc' \in {"gather", "video_start"}

C7_AudioPartialFailureContained ==
  [](C7_Results) /\ [][C7_Step]_vars

C7_Witness ==
  /\ pc = "video_start"
  /\ Len(segments) >= 2
  /\ \E i, j \in 1..Len(segments) :
       /\ segments[i].narration # "" /\ segments[i].audio_data = None
       /\ segments[j].narration # "" /\ segments[j].audio_data # None

(* C8: a segment whose video generation fails, raises or times out gets a   *)
(* failed result carrying its error; generation is still attempted, in      *)
(* order, for every later segment; the Video Stage returns one result per   *)
(* segment and the run goes on to the Compositing Stage.                    *)
VideoResultDescribes(i) ==
  /\ video_results[i].video_url = segments[i].video_url
  /\ ~video_results[i].success
       => (video_results[i].error # None /\ video_results[i].video_url = None)

C8_Results ==
  /\ pc \in {"video_loop", "video_call", "video_wait"}
       => /\ Len(video_results) = vi - 1
          /\ Len(CallsOf("video")) = IF pc = "video_loop" THEN vi - 1 ELSE vi
  /\ pc = "composite_start"
       => /\ Len(video_results) = Len(segments)
          /\ Len(CallsOf("video")) = Len(segments)
  /\ pc \in {"video_loop", "video_call", "video_wait", "composite_start"}
       => /\ \A i \in 1..Len(video_results) : VideoResultDescribes(i)
          /\ \A i \in 1..Len(CallsOf("video")) : CallsOf("video")[i].seg = i - 1

C8_Step ==
  /\ pc \in {"video_call", "video_wait"} => pc' \in {pc, "video_wait", "video_loop"}
  /\ (pc = "video_loop" /\ vi > Len(segments))
       => (pc' \in {"video_loop", "composite_start"} \/ exc' = ObserverError)

C8_VideoPartialFailureContained ==
  [](C8_Results) /\ [][C8_Step]_vars

C8_Witness ==
  /\ pc = "composite_start"
  /\ Len(video_results) >= 2
  /\ video_results[1].error = TimeoutResult.error
  /\ video_results[2].success

(* C9: when the caller supplies an existing script (any value, the script   *)
(* with no fields included), the script generator is never called and the   *)
(* Script Stage is at 100% as soon as it has run.                           *)
C9_ExistingScriptShortcut ==
  existing_script # NoScript
    => /\ CallsOf("script") = <<>>
       /\ pc \notin {"script_call", "script_generated", "script_except"}
       /\ pc = "parse" => stages[1].progress = 100

(* C10: the parsed segments (N >= 1) start at 0, are contiguous, each have  *)
(* 0 <= start < end, and the last one ends at the configured duration D.    *)
C10_SegmentsPartitionDuration ==
  LET N == Len(segments) IN
  N >= 1 =>
    /\ segments[1].start_time = 0
    /\ \A i \in 1..(N - 1) : segments[i].end_time = segments[i + 1].start_time
    /\ \A i \in 1..N : 0 <= segments[i].start_time
                       /\ segments[i].start_time < segments[i].end_time
    /\ segments[N].end_time = config_duration * TimeDen(segments)

(* C11: the stages are entered in the order Script, Audio and Music, Video, *)
(* Compositing, Export, Completed: the stage history lists them in that     *)
(* order, a step records progress for a stage only when every stage before  *)
(* it in the order has finished, and never when a later stage has been      *)
(* entered.                                                                 *)
StageRank(stage) ==
  CASE stage = SCRIPT_GENERATION -> 1
    [] stage = AUDIO_GENERATION -> 2
    [] stage = MUSIC_GENERATION -> 2
    [] stage = VIDEO_GENERATION -> 3
    [] stage = VIDEO_COMPOSITING -> 4
    [] stage = FINAL_EXPORT -> 5
    [] stage = COMPLETED -> 6

OrderedStages == WorkStages \cup {COMPLETED}

(* positions of run inside each stage run executes itself *)
PositionsOf(stage) ==
  CASE stage = SCRIPT_GENERATION ->
         {"script_start", "script_use", "script_call", "script_generated",
          "script_except"}
    [] stage = VIDEO_GENERATION -> {"video_loop", "video_call", "video_wait"}
    [] stage = VIDEO_COMPOSITING -> {"composite_50", "composite_80", "composite_100"}
    [] stage = FINAL_EXPORT -> {"export_50", "export_90", "export_100"}
    [] OTHER -> {}

(* the stage has been entered and its coroutine has returned *)
StageFinished(stage) ==
  /\ HasStage(stage)
  /\ CASE stage = AUDIO_GENERATION -> apc = "done"
       [] stage = MUSIC_GENERATION -> mpc = "done"
       [] OTHER -> pc \notin PositionsOf(stage)

RecordOf(st, stage) == SelectSeq(st, LAMBDA r : r.stage = stage)

RecordsProgress(stage) ==
  \/ observed'[stage] # observed[stage]
  \/ RecordOf(stages', stage) # RecordOf(stages, stage)

C11_Entered ==
  \A i, j \in 1..Len(stages) :
    (i < j /\ stages[i].stage \in OrderedStages /\ stages[j].stage \in OrderedStages)
      => StageRank(stages[i].stage) <= StageRank(stages[j].stage)

C11_Step ==
  \A s \in OrderedStages :
    RecordsProgress(s) =>
      \A t \in OrderedStages :
        /\ StageRank(t) < StageRank(s) => StageFinished(t)
        /\ StageRank(t) > StageRank(s) => ~HasStage(t)

C11_StageOrder ==
  [](C11_Entered) /\ [][C11_Step]_vars

C11_Witness ==
  /\ Returned
  /\ result.success
  /\ music_agent = "generative"
  /\ CallsOf("audio") # <<>>
  /\ \A s \in OrderedStages : HasStage(s)

(* C12: when no existing script is supplied and the generator call fails    *)
(* (raises or returns an empty script), the returned run is in the Failed   *)
(* stage with a Failed record in its history, its result has success =      *)
(* false with error set, and no audio, music or video provider call was     *)
(* made.  Stated for runs without a progress observer.                      *)
ScriptGenerationFailed ==
  /\ existing_script = NoScript
  /\ CallsOf("script") # <<>>
  /\ ~Truthy(script)
  /\ pc \notin {"script_call", "script_generated", "script_except"}

C12_ScriptFailureIsFailedStage ==
  (Returned /\ on_progress = "none" /\ ScriptGenerationFailed)
    => /\ current_stage = FAILED
       /\ HasStage(FAILED)
       /\ ~result.success
       /\ result.error # None
       /\ \A c \in {"audio", "music", "video"} : CallsOf(c) = <<>>

(* C13: after a hard failure no later stage is executed: once script        *)
(* generation has failed no stage after Script is entered, and once the     *)
(* Compositing Stage has found no successfully generated video the Export   *)
(* Stage is never entered and no Completed progress is recorded.            *)
NoComposableVideo ==
  /\ HasStage(VIDEO_COMPOSITING)
  /\ \A i \in 1..Len(segments) : segments[i].video_url = None

C13_NoStageAfterHardFailure ==
  /\ ScriptGenerationFailed
       => \A s \in OrderedStages \ {SCRIPT_GENERATION} : ~HasStage(s)
  /\ NoComposableVideo
       => (~HasStage(FINAL_EXPORT) /\ ~HasStage(COMPLETED))

(* C14: the Music Stage has no failure outcome: for every product category  *)
(* and every outcome of the generative call (completed, failed, pending,    *)
(* processing, raised, missing method) _generate_music returns a track with *)
(* a url (the stock track of the category when nothing was generated) and   *)
(* the music task raises for no reason but an exception of the progress     *)
(* observer outside the generative call, so music never fails a run.        *)
StockUrls == {STOCK_TRACKS[i].url : i \in 1..Len(STOCK_TRACKS)}

C14_Track ==
  mpc = "done"
    => /\ music_result.url # None
       /\ music_result # GeneratedTrack
            => /\ music_result = GetTrackForCategory(CategoryOf(product_category))
               /\ music_result.url \in StockUrls
       /\ music_agent = "stock" => music_result # GeneratedTrack

C14_Step ==
  /\ mpc = "generating" => mpc' \in {"generating", "done"}
  /\ (mpc = "start" /\ mpc' = "raised") => observed'[MUSIC_GENERATION] # observed[MUSIC_GENERATION]
  /\ mpc = "done" => (mpc' = "done" /\ music_result' = music_result)
  /\ (pc = "gather" /\ pc' = "fail") => (exc' = ObserverError /\ on_progress = "flaky")

StageNames(st) == [k \in 1..Len(st) |-> st[k].stage]

IsPrefix(a, b) == Len(a) <= Len(b) /\ SubSeq(b, 1, Len(a)) = a

StageOfClient(client) ==
  CASE client = "script" -> SCRIPT_GENERATION
    [] client = "audio" -> AUDIO_GENERATION
    [] client = "music" -> MUSIC_GENERATION
    [] client = "video" -> VIDEO_GENERATION

C15_History ==
  /\ \A i, j \in 1..Len(stages) : stages[i].stage = stages[j].stage => i = j
  /\ \A s \in AllStages : observed[s] # <<>> => HasStage(s)
  /\ \A i \in 1..Len(calls) : HasStage(StageOfClient(calls[i].client))
  /\ current_stage # INITIALIZED => HasStage(current_stage)
  /\ (Returned /\ ~escaped /\ ~result.success)
       => (stages # <<>> /\ stages[1].stage = SCRIPT_GENERATION)

C15_Step ==
  /\ IsPrefix(StageNames(stages), StageNames(stages'))
  /\ Len(stages') <= Len(stages) + 1
  /\ current_stage' # current_stage => HasStage(current_stage)'

C15_FailedRunKeepsHistory ==
  [](C15_History) /\ [][C15_Step]_vars

C15_Witness ==
  /\ Returned
  /\ ~escaped
  /\ ~result.success
  /\ StageNames(stages) =
       <<SCRIPT_GENERATION, AUDIO_GENERATION, MUSIC_GENERATION, VIDEO_GENERATION, FAILED>>

(* C16: wait_for_completion terminates after at most                        *)
(* ceil(max_wait / poll_interval) status polls; it returns the first polled *)
(* result whose status is completed or failed, and the failed timeout       *)
(* result when there is none; it never returns pending or processing.       *)
CeilDiv(a, b) == (a + b - 1) \div b

IsTerminal(r) == r.status \in {"completed", "failed"}

(* the result as the pipeline records it, pipeline.py lines 421-425 *)
ResultOf(r) ==
  [success |-> r.status = "completed", video_url |-> r.video_url, error |-> r.error]

C16_Polls ==
  /\ Len(w_polls) <= CeilDiv(w_max_wait, w_poll_interval)
  /\ \A i \in 1..(Len(w_polls) - 1) : ~IsTerminal(w_polls[i])
  /\ w_pc = "returned"
       => /\ IsTerminal(w_result)
          /\ IF w_polls # <<>> /\ IsTerminal(Last(w_polls))
             THEN w_result = Last(w_polls)
             ELSE /\ w_result = PollTimeout
                  /\ Len(w_polls) = CeilDiv(w_max_wait, w_poll_interval)
          /\ ResultOf(w_result) =
               WaitForCompletion(
                 [terminal_at |-> IF IsTerminal(w_result) /\ w_result # PollTimeout
                                  THEN Len(w_polls) ELSE 0,
                  status |-> ResultOf(w_result)],
                 w_poll_interval, w_max_wait, 0, 1)

C16_WaitTerminates ==
  [](C16_Polls) /\ <>(w_pc = "returned")

C16_Witness ==
  /\ w_pc = "returned"
  /\ w_result = PollTimeout
  /\ w_max_wait = 5
  /\ w_poll_interval = 2
  /\ Len(w_polls) = 3

(* C17: within the Audio Stage and within the Video Stage the provider      *)
(* calls are issued in strictly increasing segment index order, at most one *)
(* call of the stage is in flight at a time (a call is issued only when     *)
(* every earlier call of the stage has its result), and result i of the     *)
(* stage belongs to segment i.                                              *)
Increasing(cs) == \A i, j \in 1..Len(cs) : i < j => cs[i].seg < cs[j].seg

(* results recorded for segments whose speech was requested *)
SpeechResults ==
  Cardinality({i \in 1..Len(audio_results) : segments[i].narration # ""})

AudioRunning == apc \in {"speech", "sleep"}
VideoRunning == pc \in {"video_loop", "video_call", "video_wait"}

C17_Order ==
  /\ Increasing(CallsOf("audio"))
  /\ Increasing(CallsOf("video"))
  /\ AudioRunning
       => /\ Len(CallsOf("audio")) - SpeechResults = IF apc = "speech" THEN 1 ELSE 0
          /\ \A i \in 1..Len(audio_results) : AudioResultDescribes(i)
  /\ VideoRunning
       => /\ Len(CallsOf("video")) - Len(video_results)
               = IF pc = "video_loop" THEN 0 ELSE 1
          /\ \A i \in 1..Len(video_results) : VideoResultDescribes(i)
  /\ pc = "composite_start"
       => /\ Len(video_results) = Len(segments)
          /\ \A i \in 1..Len(video_results) : VideoResultDescribes(i)

C17_Step ==
  /\ Len(CallsOf("audio")') > Len(CallsOf("audio"))
       => /\ apc # "speech"
          /\ Len(CallsOf("audio")') = Len(CallsOf("audio")) + 1
  /\ Len(CallsOf("video")') > Len(CallsOf("video"))
       => /\ pc = "video_loop"
          /\ Len(CallsOf("video")) = Len(video_results)
          /\ Len(CallsOf("video")') = Len(CallsOf("video")) + 1

C17_CallsInSegmentOrder ==
  [](C17_Order) /\ [][C17_Step]_vars

C17_Witness ==
  /\ pc = "composite_start"
  /\ Len(video_results) = 2
  /\ Len(CallsOf("audio")) = 2
  /\ Len(CallsOf("video")) = 2

(* C18: an execution of a job's task that fails with a transient error      *)
(* (message classified as timeout or connection), by a raised exception or  *)
(* by a failed PipelineResult, is retried while fewer than 3 retries were   *)
(* made; a job is never retried more than 3 times, and the execution that   *)
(* fails with the retries exhausted leaves the job's status failed.         *)
ExecutionFails(j) ==
  /\ task[j].state = "running"
  /\ task'[j].state \in {"queued", "done"}
  /\ jobs'[j].status = "failed"

C18_Retries == \A j \in JobIds : task[j].retries <= MaxRetries

C18_Step ==
  \A j \in JobIds :
    (ExecutionFails(j) /\ IsTransient(jobs'[j].error))
      => IF task[j].retries < MaxRetries
         THEN task'[j] = [state |-> "queued", retries |-> task[j].retries + 1]
         ELSE task'[j] = [state |-> "done", retries |-> MaxRetries]

C18_TransientFailureRetried ==
  [](C18_Retries) /\ [][C18_Step]_vars

(* C19: a run of check_stalled_jobs examines every stored job document; it  *)
(* stores as failed exactly the documents it finds with status processing   *)
(* and a last update older than the threshold, and writes no other          *)
(* document; hence the document of a job whose worker is lost while it is   *)
(* processing is eventually marked failed (unless the job is cancelled      *)
(* first).                                                                  *)
OlderThanThreshold(data) == data.updated_at > StallThreshold

SweepActs == sweep' # sweep

C19_Step ==
  /\ (sweep.pc = "idle" /\ SweepActs)
       => /\ jobs' = jobs
          /\ sweep'.todo = {j \in JobIds : jobs[j] # NoJob}
  /\ (sweep.pc = "scan" /\ SweepActs)
       => /\ jobs' = jobs
          /\ sweep'.pc = "idle" => sweep.todo = {}
          /\ \A k \in sweep.todo \ sweep'.todo :
               (sweep'.pc = "write" /\ sweep'.key = k)
                 <=> (jobs[k].status = "processing" /\ OlderThanThreshold(jobs[k]))
  /\ (sweep.pc = "write" /\ SweepActs)
       => /\ jobs'[sweep.key].status = "failed"
          /\ \A j \in JobIds \ {sweep.key} : jobs'[j] = jobs[j]
          /\ sweep'.pc = "scan"

StuckInProcessing(j) == task[j].state = "lost" /\ jobs[j].status = "processing"

C19_StalledJobsFailed ==
  /\ [][C19_Step]_vars
  /\ \A j \in JobIds :
       StuckInProcessing(j) ~> (jobs[j].status \in {"failed", "cancelled"})

C19_Witness ==
  /\ task["job-a"].state = "lost"
  /\ jobs["job-a"] = JobData("failed", StalledError)
  /\ jobs["job-b"].status = "processing"
  /\ jobs["job-b"].updated_at = StallThreshold
  /\ sweep.pc = "idle"

(* C20: a run whose script yields N segments and in which the video         *)
(* generation of at least one segment succeeds returns success = true with  *)
(* metadata.segments = N, a video_url and a thumbnail_url that are not      *)
(* null, and a stage history ending in Completed at 100: from the start of  *)
(* the Compositing Stage with a successful video result the run goes on to  *)
(* composite (it does not skip to a null export), and a returned successful *)
(* run has these fields.  Stated for runs without a progress observer.      *)
SomeVideoSucceeded ==
  \E i \in 1..Len(video_results) : video_results[i].success

C20_Composites ==
  (pc = "composite_start" /\ on_progress = "none" /\ SomeVideoSucceeded)
    => pc' \in {"composite_start", "composite_50"}

C20_Result ==
  (Returned /\ on_progress = "none" /\ composite_url # None)
    => /\ result.success
       /\ result.segments = Len(segments)
       /\ result.video_url # None
       /\ result.thumbnail_url # None
       /\ Last(stages) = [stage |-> COMPLETED, progress |-> 100,
                           started_at |-> TRUE, completed_at |-> TRUE]

C20_SuccessfulRunResult ==
  [](C20_Result) /\ [][C20_Composites]_vars

(* C21: no client operation used by the pipeline (video generate, video     *)
(* status poll, speech synthesize, music generate) raises on a network or   *)
(* API-level error: the operation returns a failure-tagged result (status   *)
(* failed, or success false) that carries a non-empty error message.        *)
FailureTagged(r) ==
  IF "success" \in DOMAIN r THEN ~r.success ELSE r.status = "failed"

C21_ErrorsReturnedAsFailures ==
  /\ http_pc # "raised"
  /\ (http_pc = "returned" /\ http_exchange.raises # "none")
       => /\ FailureTagged(http_result)
          /\ http_result.error # None
          /\ http_result.error # ""

(* C22: a cancel request succeeds exactly for jobs in queued or processing  *)
(* status: a request for a job that was accepted but has not started, or    *)
(* that is processing, is not rejected and sets the status to cancelled; a  *)
(* request for a completed, failed, cancelled or unknown job is rejected    *)
(* and leaves the job record unchanged.                                     *)
Queued(j) == task[j].state = "queued" /\ jobs[j] = NoJob

CancelRejections == {"404 Job not found", "400 Cannot cancel job"}

C22_Step ==
  LET j == cancel'.job
  IN /\ (cancel.pc = "idle" /\ cancel' # cancel)
          => IF Queued(j) \/ jobs[j].status = "processing"
             THEN cancel'.response \notin CancelRejections
             ELSE cancel'.response \in CancelRejections /\ jobs' = jobs
     /\ (cancel.pc # "idle" /\ cancel'.pc = "idle")
          => IF cancel'.response = "Job cancelled successfully"
             THEN jobs'[j].status = "cancelled"
             ELSE jobs' = jobs

C22_CancelOnlyQueuedOrProcessing == [][C22_Step]_vars

(* C23: in every reachable state of a run the stage history holds at most   *)
(* one progress record per stage, every record has started_at set, and a    *)
(* record's completed_at is set if and only if its progress is 100.         *)
C23_StageRecordsWellFormed ==
  /\ \A k, l \in 1..Len(stages) : stages[k].stage = stages[l].stage => k = l
  /\ \A k \in 1..Len(stages) :
       /\ stages[k].started_at
       /\ stages[k].completed_at <=> (stages[k].progress = 100)

(* C24: whenever a run ends in failure, the error of its result carries the *)
(* message of the failure that caused it: at the step that builds the       *)
(* failure result while an exception (the script generator's, or an         *)
(* unexpected one) is being handled, the result's error is that exception's *)
(* message.  Stated for runs without a progress observer.                   *)
C24_Step ==
  (on_progress = "none" /\ result = NoResult /\ result' # NoResult
     /\ ~result'.success /\ exc # None)
    => result'.error = exc

C24_ErrorCarriesCause == [][C24_Step]_vars

(* C25: for every segment whose narration is absent, empty or only          *)
(* whitespace the Audio Stage makes no speech-synthesis call and records a  *)
(* successful result carrying no audio; for every other segment exactly one *)
(* synthesis call is made (at most one while the stage runs, one once it    *)
(* has finished).                                                           *)
Strip(text) == IF text = " " THEN "" ELSE text

SpeechCallsFor(i) ==
  Cardinality({k \in 1..Len(calls) :
                 calls[k].client = "audio" /\ calls[k].seg = i - 1})

C25_SilentSegmentsSkipped ==
  \A i \in 1..Len(segments) :
    IF Strip(segments[i].narration) = ""
    THEN /\ SpeechCallsFor(i) = 0
         /\ i <= Len(audio_results)
              => /\ audio_results[i].success
                 /\ audio_results[i].audio_data = None
    ELSE /\ SpeechCallsFor(i) <= 1
         /\ apc = "done" => SpeechCallsFor(i) = 1

(* C26: for every segment the duration passed to the video generator equals *)
(* round(end_time - start_time), the segment length rounded to the nearest  *)
(* integer (a 7.5-second segment requests 8 seconds, not 7).                *)
(* round(x) of the rational num / den >= 0: to nearest, a tie to even *)
Round(num, den) ==
  LET q == num \div den
      r == num % den
  IN IF 2 * r < den THEN q
     ELSE IF 2 * r > den THEN q + 1
     ELSE IF q % 2 = 0 THEN q ELSE q + 1

C26_VideoDurationRounded ==
  \A k \in 1..Len(calls) :
    calls[k].op = "generate_video"
      => LET seg == segments[calls[k].seg + 1]
         IN calls[k].arg = Round(seg.end_time - seg.start_time, TimeDen(segments))

(* C27: in the Audio/Music fork-join, if one branch raises, run still waits *)
(* for the sibling branch to terminate before it handles the failure,       *)
(* builds the result or releases the provider clients: once run has left    *)
(* the join, no branch is still running.                                    *)
BranchRunning(p) == p \notin {"idle", "done", "raised"}

C27_SiblingAwaited ==
  pc \in {"fail", "cleanup_video", "cleanup_audio", "cleanup_music", "returned"}
    => ~BranchRunning(apc) /\ ~BranchRunning(mpc)

(* C28: the Music Stage leaves the segment list unchanged, and after the    *)
(* script is parsed no stage adds, removes or reorders segments: during the *)
(* fork-join only the Audio Stage writes to segments and only their audio   *)
(* field, and the Video Stage writes only their video URL field.            *)
SameButFor(seg1, seg2) ==
  [seg1 EXCEPT !.audio_data = None, !.video_url = None]
    = [seg2 EXCEPT !.audio_data = None, !.video_url = None]

C28_Step ==
  /\ pc # "parse"
       => /\ Len(segments') = Len(segments)
          /\ \A i \in 1..Len(segments) : SameButFor(segments'[i], segments[i])
  /\ (mpc # "idle" /\ mpc' # mpc) => segments' = segments
  /\ pc = "gather"
       => \A i \in 1..Len(segments) :
            /\ segments'[i].video_url = segments[i].video_url
            /\ segments'[i].audio_data # segments[i].audio_data
                 => apc = "speech" /\ apc' # apc
  /\ VideoRunning
       => \A i \in 1..Len(segments) :
            segments'[i].audio_data = segments[i].audio_data

C28_SegmentsFrame == [][C28_Step]_vars

C28_Witness ==
  /\ mpc = "done"
  /\ \E i \in 1..Len(segments) :
       segments[i].audio_data # None /\ segments[i].video_url # None

(* C29: for any job id at most one writer at a time writes the job's status *)
(* record: no two writers are between their read and their write of the    *)
(* same document, and no writer writes a document that another writer has   *)
(* read and not yet written back.                                           *)
InCancelUpdate(j) == cancel.pc = "update" /\ cancel.job = j
InSweepWrite(j) == sweep.pc = "write" /\ sweep.key = j

(* the document of j is stored in this step (time passing only ages it) *)
Written(j) ==
  jobs'[j] # jobs[j] /\ jobs'[j].updated_at <= jobs[j].updated_at

C29_Sections == \A j \in JobIds : ~(InCancelUpdate(j) /\ InSweepWrite(j))

C29_Step ==
  \A j \in JobIds :
    Written(j) => /\ InCancelUpdate(j) => cancel' # cancel
                  /\ InSweepWrite(j) => sweep' # sweep

C29_OneWriterPerJob == [](C29_Sections) /\ [][C29_Step]_vars

(* C30: when the orchestrator is configured with a generative music         *)
(* provider and the provider's generation request succeeds, the Music Stage *)
(* returns the generated track; it returns the stock track only when the    *)
(* provider's outcome is a failure or a status other than completed.        *)
(* Stated for runs without a progress observer.                             *)
MusicStageReturned == mpc = "done" /\ on_progress = "none" /\ SunoObserved

C30_GeneratedTrackReturned ==
  /\ (MusicStageReturned /\ http_exchange.raises = "none")
       => music_result = GeneratedTrack
  /\ (MusicStageReturned /\ music_result # GeneratedTrack)
       => http_result.status # "completed"


(* C38: in the Video Stage, when the generate call for a segment comes back *)
(* failed, no status poll is issued for that segment (the wait is entered   *)
(* only with the task the provider accepted), the segment's result is       *)
(* recorded as failed with the generate error and without a URL, and the    *)
(* segment's video URL stays null.                                          *)
GenerateErrors == {"API error", "video error"}

C38_Polls == pc = "video_wait" => pending = "task"

C38_Step ==
  (pc = "video_call" /\ pc' # "video_call" /\ pc' # "video_wait")
    => /\ pc' = "video_loop"
       /\ vi' = vi + 1
       /\ pending' = pending
       /\ Len(video_results') = Len(video_results) + 1
       /\ Last(video_results').success = FALSE
       /\ Last(video_results').video_url = None
       /\ Last(video_results').error \in GenerateErrors
       /\ segments'[vi].video_url = None
       /\ segments' = segments

C38_FailedGenerateNotPolled == [](C38_Polls) /\ [][C38_Step]_vars

C38_Witness ==
  /\ pc = "video_wait"
  /\ vi = 2
  /\ Len(video_results) = 1
  /\ video_results[1].error \in GenerateErrors
  /\ segments[1].video_url = None


(* C31: a job whose execution reaches the wall-clock ceiling, at whatever   *)
(* point of the pipeline, ends with a failed status record even though the  *)
(* orchestrator never returned: the kill at the hard limit writes nothing   *)
(* and leaves the record the worker wrote before, and from then on the      *)
(* record becomes failed and stays so (or cancelled, when the job is        *)
(* cancelled before the sweep reaches it).                                  *)
KilledAtCeiling(j) == task[j].state = "lost"

C31_Step ==
  \A j \in JobIds :
    (~KilledAtCeiling(j) /\ KilledAtCeiling(j)')
      => /\ jobs' = jobs
         /\ jobs[j] # NoJob
         /\ jobs[j].status \in {"processing", "failed", "cancelled"}

C32_Step ==
  \A j \in JobIds :
    jobs[j].status \in TerminalJobStatuses
      => jobs'[j].status = jobs[j].status

C32_TerminalStable == [][C32_Step]_vars

(* C33: whenever a job's status record is completed, its result contains a  *)
(* non-null video_url, and post_process_video is dispatched only with a     *)
(* non-null video_url.                                                      *)
C33_CompletedHasVideo ==
  /\ record.status = "completed"
       => /\ record.result # AbsentResult
          /\ record.result.video_url # None
  /\ \A i \in 1..Len(posted) : posted[i] # None

(* C36: when an execution of generate_video_task finishes without           *)
(* requesting a retry, the job's status record is completed if the pipeline *)
(* result was successful and failed otherwise, and post_process_video is    *)
(* dispatched exactly once, after the completed status is written, if and   *)
(* only if the result was successful.                                       *)
TaskFinished == post["generate_video_task"].pc = "done"

RunSucceeded == ~escaped /\ result.success

C36_Finished ==
  TaskFinished
    => IF RunSucceeded
       THEN record.status = "completed" /\ Len(posted) = 1
       ELSE record.status = "failed" /\ posted = <<>>

C36_Step ==
  posted' # posted
    => /\ posted = <<>>
       /\ Len(posted') = 1
       /\ RunSucceeded
       /\ record.status = "completed"
       /\ record' = record

PostProcessingFinished == \A t \in PostProcessingTasks : post[t].pc = "done"

Exported(format_name) == \E item \in record.exports : item.key = format_name

C35_NoLostUpdate ==
  PostProcessingFinished
    => /\ record.status = "completed"
       /\ record.result.thumbnail_url = ReplaceMp4(record.result.video_url, "_thumb.jpg")
       /\ \A i \in 1..Len(ExportFormats) : Exported(ExportFormats[i])

(* C37: for every status document the worker writes while a job is          *)
(* processing (current_step initializing or a pipeline stage value), the    *)
(* status endpoint reports at most one step as in_progress, every step      *)
(* before it as completed and every step after it as pending, and it never  *)
(* reports all steps completed for a job that is still processing.          *)
InProgressSteps(steps) == {i \in 1..Len(steps) : steps[i].status = "in_progress"}

C37_StepsOrdered ==
  status_response.status = "processing"
    => LET steps == status_response.steps
       IN /\ Cardinality(InProgressSteps(steps)) <= 1
          /\ \A i \in InProgressSteps(steps) :
               \A k \in 1..Len(steps) :
                 /\ k < i => steps[k].status = "completed"
                 /\ k > i => steps[k].status = "pending"
          /\ \E k \in 1..Len(steps) : steps[k].status # "completed"

(* C34: no provider client is used after it has been released: once         *)
(* _cleanup has closed a client, no stage coroutine of the run (an Audio or *)
(* Music branch still running when its sibling raised included) issues a    *)
(* call on that client.  Only calls issued while run is suspended in one of *)
(* _cleanup's awaits are counted: the event loop stops when run returns,    *)
(* and a stock music agent has no close to await.                           *)
CleanupAwaiting ==
  \/ pc = "cleanup_video"
  \/ pc = "cleanup_audio"
  \/ pc = "cleanup_music" /\ HasClose(music_agent)

C34_Step ==
  (calls' # calls /\ CleanupAwaiting)
    => closed[Last(calls').client] = 0

C34_NoCallAfterClose == [][C34_Step]_vars

====
